---- MODULE Spec2Model ----
(***************************************************************************)
(* A model of the arithmetic rewrite simplifier (src/arith/                *)
(* rewrite_simplify.cc) restricted to scalar expressions: index-typed      *)
(* integers, one non-index integer type, and booleans.  Vector, float,     *)
(* Select, Cast and Let nodes and the builtin calls are outside the        *)
(* modelled input set, so the rule groups gated on them never match and    *)
(* are left out.                                                           *)
(*                                                                         *)
(* An expression is a tuple whose first element is the node kind:          *)
(*   <<"int", n>>  index-typed IntImm      <<"bool", b>>  boolean literal  *)
(*   <<"var", v>>  index-typed Var         <<"bvar", v>>  boolean Var      *)
(*   <<"uint", n>>, <<"uvar", v>>  literal / Var of a non-index int type   *)
(*   <<op, a, b>>  binary node             <<"not", a>>   Not              *)
(*   <<"call", f>>  boolean call of an extern function, not pure           *)
(***************************************************************************)
EXTENDS Integers, Sequences, FiniteSets, TLC

VARIABLES
  expr,                   \* the expression handed to the simplifier
  result,                 \* what the last call returned (NoResult before)
  literal_constraints_,   \* RewriteSimplifier::Impl::literal_constraints_
  var_map_,               \* RewriteSimplifier::Impl::var_map_
  handles,                \* the restore closures handed out and not yet run
  stats_,                 \* RewriteSimplifier::Impl::stats_ (+ ghost counters)
  enabled_extensions_,    \* RewriteSimplifier::Impl::enabled_extensions_
  maximum_rewrite_steps_, \* RewriteSimplifier::Impl::maximum_rewrite_steps_
  var_bound,              \* what the bound oracle knows about the variables
  known,                  \* the inequalities the transitive-comparison oracle holds
  var_modular,            \* what the modular-set oracle knows about the variables
  failure,                \* "none", or the fatal check that stopped the program
  strict_lifo,            \* ghost: every restore so far ran once, innermost first
  original_blocks,        \* handle_reduction_decomposition: the blocks handed in
  pipeline_stages,        \* handle_reduction_decomposition: the annotations handed in
  processed_blocks,       \* handle_reduction_decomposition: the blocks returned
  processed_stages,       \* handle_reduction_decomposition: the annotations returned
  last                    \* the last operation and what it observed

vars == <<expr, result, literal_constraints_, var_map_, handles, stats_,
          enabled_extensions_, maximum_rewrite_steps_, var_bound, known, var_modular, failure,
          strict_lifo, original_blocks, pipeline_stages, processed_blocks,
          processed_stages, last>>
\* the state of handle_reduction_decomposition
pipeline == <<original_blocks, pipeline_stages, processed_blocks, processed_stages>>

-----------------------------------------------------------------------------
(* Bounds of the model *)

\* width in bits of the modelled integer type (int64 scaled down so that the
\* products of bounds stay inside TLC's integers)
IntBits == 8
\* most EnterConstraint calls of one run
MaxEnter == 2
\* most calls of one restore closure
MaxCalls == 2
\* the simplifying operations stop once nodes_visited has reached MaxVisited
\* (until ResetStatsCounters)
MaxVisited == 1
\* largest rewrite budget handed to SetMaximumRewriteSteps
MaxSteps == 2
\* the environments of the semantic check bind each variable in -EnvBound..EnvBound
EnvBound == 3

-----------------------------------------------------------------------------
(* The simplifier's functions call each other: a visitor runs rules, a rule   *)
(* proves its side condition by simplifying and comparing, and so on.        *)
(* Call(f, args) is the call of f on args; the functions are defined below   *)
(* under the name of f followed by Body.                                     *)

RECURSIVE Call(_, _)
Match(p, e) == Call("Match", <<p, e>>)
Eval(p, b) == Call("Eval", <<p, b>>)
P(op, a, b) == Call("P", <<op, a, b>>)
PNot(a) == Call("PNot", <<a>>)
MatchOneOf(ps, i, e) == Call("MatchOneOf", <<ps, i, e>>)
VisitExpr(e, c) == Call("VisitExpr", <<e, c>>)
ConstIntBound(e, c) == Call("ConstIntBound", <<e, c>>)
ModularSet(e, c) == Call("ModularSet", <<e, c>>)
RunRules(kind, ret, c, acc) == Call("RunRules", <<kind, ret, c, acc>>)
TryComparisonOfProductAndSum(x, y, c) == Call("TryComparisonOfProductAndSum", <<x, y, c>>)
merge_constants(ret) == Call("merge_constants", <<ret>>)
common_factor(ret, c) == Call("common_factor", <<ret, c>>)
ExtractConstantOffset(e) == Call("ExtractConstantOffset", <<e>>)
NormalizeBooleanOperators(e) == Call("NormalizeBooleanOperators", <<e>>)
PushConstraints(s, i) == Call("PushConstraints", <<s, i>>)
Mutate(e, c) == Call("Mutate", <<e, c>>)
CanProveEqual(x, val, c) == Call("CanProveEqual", <<x, val, c>>)
CanProveGreaterEqual(x, val, c) == Call("CanProveGreaterEqual", <<x, val, c>>)
CanProveLess(x, val, c) == Call("CanProveLess", <<x, val, c>>)
CanProve(cond, c) == Call("CanProve", <<cond, c>>)
FloorDivResidue(ret, c) == Call("FloorDivResidue", <<ret, c>>)
TryCompare(x, val, c) == Call("TryCompare", <<x, val, c>>)
TryCompareXY(x, y, c) == Call("TryCompareXY", <<x, y, c>>)
Rule(kind, i, ret, c) == Call("Rule", <<kind, i, ret, c>>)
RewriteSimplify(e, c) == Call("RewriteSimplify", <<e, c>>)
BranchWalk(w, c) == Call("BranchWalk", <<w, c>>)

-----------------------------------------------------------------------------
(* Expression nodes *)

IntImm(n) == <<"int", n>>
UIntImm(n) == <<"uint", n>>
BoolImm(b) == <<"bool", b>>
Var(v) == <<"var", v>>
UVar(v) == <<"uvar", v>>
BVar(v) == <<"bvar", v>>
\* a boolean call of an extern function f with side effects
ExternCall(f) == <<"call", f>>
Bin(op, a, b) == <<op, a, b>>
Not(a) == <<"not", a>>

Kind(e) == e[1]
A(e) == e[2]
B(e) == e[3]
Is(e, k) == e[1] = k
IsInt(e) == e[1] = "int"
IsBool(e) == e[1] = "bool"
IsLeaf(e) == e[1] \in {"int", "uint", "bool", "var", "uvar", "bvar", "call"}
Val(e) == e[2]

ArithOps == {"add", "sub", "mul", "div", "mod", "floordiv", "floormod", "min", "max"}
CmpOps == {"eq", "ne", "lt", "le", "gt", "ge"}
LogicOps == {"and", "or"}

\* the datatype of a node: "index" (int32/int64), "uint" (a non-index integer
\* type) or "bool"
RECURSIVE DType(_)
DType(e) ==
  CASE Kind(e) \in {"int", "var"} -> "index"
    [] Kind(e) \in {"uint", "uvar"} -> "uint"
    [] Kind(e) \in {"bool", "bvar", "call", "not"} \cup CmpOps \cup LogicOps -> "bool"
    [] OTHER -> DType(A(e))

IsIndexType(t) == t = "index"

RECURSIVE Depth(_)
Depth(e) ==
  IF IsLeaf(e) THEN 0
  ELSE IF Is(e, "not") THEN 1 + Depth(A(e))
  ELSE 1 + (IF Depth(A(e)) >= Depth(B(e)) THEN Depth(A(e)) ELSE Depth(B(e)))

RECURSIVE SubExprs(_)
SubExprs(e) ==
  IF IsLeaf(e) THEN {e}
  ELSE IF Is(e, "not") THEN {e} \cup SubExprs(A(e))
  ELSE {e} \cup SubExprs(A(e)) \cup SubExprs(B(e))

-----------------------------------------------------------------------------
(* Integer helpers: the C++ operators and the arith:: helpers *)

Abs(n) == IF n < 0 THEN -n ELSE n
MinI(a, b) == IF a <= b THEN a ELSE b
MaxI(a, b) == IF a >= b THEN a ELSE b

\* C++ a / b and a % b on int64_t (b # 0): rounding toward zero
truncdiv(a, b) ==
  IF (a >= 0) = (b > 0) THEN Abs(a) \div Abs(b) ELSE -(Abs(a) \div Abs(b))
truncmod(a, b) == a - truncdiv(a, b) * b

\* arith::floordiv / arith::floormod (b # 0): rounding toward -infinity
floordiv(a, b) == IF b > 0 THEN a \div b ELSE (-a) \div (-b)
floormod(a, b) == a - floordiv(a, b) * b

\* two's complement wrap-around of the modelled integer width
Wrap(n) == ((n + 2 ^ (IntBits - 1)) % (2 ^ IntBits)) - 2 ^ (IntBits - 1)

RECURSIVE GCD(_, _)
GCD(a, b) == IF b = 0 THEN a ELSE GCD(b, a % b)
ZeroAwareGCD(a, b) == GCD(Abs(a), Abs(b))


-----------------------------------------------------------------------------
(* The meaning of an expression: the reference the simplifier is judged     *)
(* against.  A value is [ok |-> TRUE, v |-> n] (booleans as 0 / 1), or      *)
(* Undef when a division or remainder by zero is evaluated.                 *)

Undef == [ok |-> FALSE, v |-> 0]
Ok(n) == [ok |-> TRUE, v |-> n]
B2I(b) == IF b THEN 1 ELSE 0

BinValue(op, a, b) ==
  CASE op = "add" -> Ok(a + b)
    [] op = "sub" -> Ok(a - b)
    [] op = "mul" -> Ok(a * b)
    [] op = "div" -> IF b = 0 THEN Undef ELSE Ok(truncdiv(a, b))
    [] op = "mod" -> IF b = 0 THEN Undef ELSE Ok(truncmod(a, b))
    [] op = "floordiv" -> IF b = 0 THEN Undef ELSE Ok(floordiv(a, b))
    [] op = "floormod" -> IF b = 0 THEN Undef ELSE Ok(floormod(a, b))
    [] op = "min" -> Ok(MinI(a, b))
    [] op = "max" -> Ok(MaxI(a, b))
    [] op = "eq" -> Ok(B2I(a = b))
    [] op = "ne" -> Ok(B2I(a # b))
    [] op = "lt" -> Ok(B2I(a < b))
    [] op = "le" -> Ok(B2I(a <= b))
    [] op = "gt" -> Ok(B2I(a > b))
    [] op = "ge" -> Ok(B2I(a >= b))
    [] op = "and" -> Ok(B2I(a = 1 /\ b = 1))
    [] op = "or" -> Ok(B2I(a = 1 \/ b = 1))

RECURSIVE Value(_, _)
Value(e, rho) ==
  CASE Kind(e) \in {"int", "uint"} -> Ok(Val(e))
    [] Kind(e) = "bool" -> Ok(B2I(Val(e)))
    [] Kind(e) \in {"var", "uvar", "bvar"} -> Ok(rho[Val(e)])
    [] Kind(e) = "call" -> Undef
    [] Kind(e) = "not" ->
         LET a == Value(A(e), rho) IN IF a.ok THEN Ok(1 - a.v) ELSE Undef
    [] OTHER ->
         LET a == Value(A(e), rho)
             b == Value(B(e), rho)
         IN IF a.ok /\ b.ok THEN BinValue(Kind(e), a.v, b.v) ELSE Undef

-----------------------------------------------------------------------------
(* Constant folding and the pattern language's Eval *)

IsLit(e) == Kind(e) \in {"int", "uint", "bool"}
NullOpt == <<"none">>
MakeConst(t, n) ==
  CASE t = "index" -> IntImm(n) [] t = "uint" -> UIntImm(n) [] OTHER -> BoolImm(n # 0)
ZeroWithTypeLike(x) == MakeConst(DType(x), 0)
OneWithTypeLike(x) == MakeConst(DType(x), 1)
LitNum(e) == IF IsBool(e) THEN B2I(Val(e)) ELSE Val(e)

\* TryConstFold<Op>(a, b): a literal when both operands are literals, wrapped
\* to the width; a zero divisor never folds.
TryConstFold(op, a, b) ==
  IF ~(IsLit(a) /\ IsLit(b)) THEN NullOpt
  ELSE LET x == LitNum(a)
           y == LitNum(b)
           t == DType(a)
       IN CASE op \in {"add", "sub", "mul", "min", "max"} ->
                 MakeConst(t, Wrap(BinValue(op, x, y).v))
            [] op \in {"div", "mod", "floordiv", "floormod"} ->
                 IF y # 0 THEN MakeConst(t, Wrap(BinValue(op, x, y).v)) ELSE NullOpt
            [] OTHER -> BoolImm(BinValue(op, x, y).v = 1)

TryConstFoldNot(a) == IF IsBool(a) THEN BoolImm(~Val(a)) ELSE NullOpt

\* PBinaryExpr::Eval: the constructor with eager constant folding
PBody(op, a, b) ==
  LET f == TryConstFold(op, a, b) IN IF f # NullOpt THEN f ELSE Bin(op, a, b)
PNotBody(a) == LET f == TryConstFoldNot(a) IN IF f # NullOpt THEN f ELSE Not(a)
\* an integer literal of the type of x, as the patterns' implicit conversions make
C(x, n) == MakeConst(DType(x), n)


-----------------------------------------------------------------------------
(* The analysis oracles the simplifier borrows from the analyzer.  Their    *)
(* code is outside rewrite_simplify.cc; each is modelled as one sound       *)
(* analysis in the terms the specification gives for it.                    *)

kPosInf == 2 ^ (IntBits - 1) - 1
kNegInf == -kPosInf
Everything == [min_value |-> kNegInf, max_value |-> kPosInf]
MakeBound(lo, hi) ==
  [min_value |-> IF lo <= kNegInf THEN kNegInf ELSE IF lo >= kPosInf THEN kPosInf ELSE lo,
   max_value |-> IF hi >= kPosInf THEN kPosInf ELSE IF hi <= kNegInf THEN kNegInf ELSE hi]
IsInf(n) == n = kPosInf \/ n = kNegInf
InfAdd(a, b) ==
  IF a = kPosInf \/ b = kPosInf THEN kPosInf
  ELSE IF a = kNegInf \/ b = kNegInf THEN kNegInf ELSE a + b
InfNeg(a) == -a
InfMul(a, b) ==
  IF a = 0 \/ b = 0 THEN 0
  ELSE IF IsInf(a) \/ IsInf(b) THEN (IF (a > 0) = (b > 0) THEN kPosInf ELSE kNegInf)
  ELSE a * b
InfDiv(a, d, fl) ==
  IF IsInf(a) THEN a ELSE IF fl THEN floordiv(a, d) ELSE truncdiv(a, d)
Min4(a, b, c, d) == MinI(MinI(a, b), MinI(c, d))
Max4(a, b, c, d) == MaxI(MaxI(a, b), MaxI(c, d))

\* analyzer_->const_int_bound(e): interval arithmetic over the bounds the
\* analyzer holds for the variables (c.vb)
ConstIntBoundBody(e, c) ==
  CASE Kind(e) \in {"int", "uint"} -> MakeBound(Val(e), Val(e))
    [] Kind(e) = "var" -> c.vb[Val(e)]
    [] Kind(e) = "uvar" -> Everything
    [] DType(e) = "bool" -> MakeBound(0, 1)
    [] OTHER ->
      LET a == ConstIntBound(A(e), c)
          b == ConstIntBound(B(e), c)
          op == Kind(e)
          divisor == IF IsInt(B(e)) /\ Val(B(e)) > 0 THEN Val(B(e)) ELSE 0
      IN CASE op = "add" ->
                MakeBound(InfAdd(a.min_value, b.min_value), InfAdd(a.max_value, b.max_value))
           [] op = "sub" ->
                MakeBound(InfAdd(a.min_value, InfNeg(b.max_value)),
                          InfAdd(a.max_value, InfNeg(b.min_value)))
           [] op = "mul" ->
                MakeBound(Min4(InfMul(a.min_value, b.min_value), InfMul(a.min_value, b.max_value),
                               InfMul(a.max_value, b.min_value), InfMul(a.max_value, b.max_value)),
                          Max4(InfMul(a.min_value, b.min_value), InfMul(a.min_value, b.max_value),
                               InfMul(a.max_value, b.min_value), InfMul(a.max_value, b.max_value)))
           [] op = "min" ->
                MakeBound(MinI(a.min_value, b.min_value), MinI(a.max_value, b.max_value))
           [] op = "max" ->
                MakeBound(MaxI(a.min_value, b.min_value), MaxI(a.max_value, b.max_value))
           [] op = "floormod" /\ divisor > 0 -> MakeBound(0, divisor - 1)
           [] op = "mod" /\ divisor > 0 ->
                IF a.min_value >= 0 THEN MakeBound(0, divisor - 1)
                ELSE MakeBound(1 - divisor, divisor - 1)
           [] op = "floordiv" /\ divisor > 0 ->
                MakeBound(InfDiv(a.min_value, divisor, TRUE), InfDiv(a.max_value, divisor, TRUE))
           [] op = "div" /\ divisor > 0 ->
                MakeBound(InfDiv(a.min_value, divisor, FALSE), InfDiv(a.max_value, divisor, FALSE))
           [] OTHER -> Everything

\* analyzer_->modular_set(e): the value lies in {base + k * coeff}
MakeModular(coeff, base) ==
  [coeff |-> Abs(coeff), base |-> IF coeff = 0 THEN base ELSE floormod(base, Abs(coeff))]
ModularSetBody(e, c) ==
  CASE Kind(e) \in {"int", "uint"} -> MakeModular(0, Val(e))
    [] Kind(e) = "var" -> c.vm[Val(e)]
    [] Kind(e) \in {"add", "sub"} ->
      LET a == ModularSet(A(e), c)
          b == ModularSet(B(e), c)
      IN MakeModular(ZeroAwareGCD(a.coeff, b.coeff),
                     IF Kind(e) = "add" THEN a.base + b.base ELSE a.base - b.base)
    [] Kind(e) = "mul" ->
      LET a == ModularSet(A(e), c)
          b == ModularSet(B(e), c)
      IN MakeModular(ZeroAwareGCD(a.coeff * b.coeff,
                                  ZeroAwareGCD(a.base * b.coeff, a.coeff * b.base)),
                     a.base * b.base)
    [] OTHER -> MakeModular(1, 0)

\* CompareResult: the set of relations still possible; & is intersection
kEQ == {"EQ"}
kLT == {"LT"}
kGT == {"GT"}
kLE == {"LT", "EQ"}
kGE == {"GT", "EQ"}
kNE == {"LT", "GT"}
kUnknown == {"LT", "EQ", "GT"}

\* SideEffect(e) <= kPure: literals, variables and operators are pure, the
\* extern calls are not
SideEffectIsPure(e) == \A t \in SubExprs(e) : Kind(t) # "call"

-----------------------------------------------------------------------------
(* Bookkeeping of one traversal.  A visit returns [e |-> the expression,    *)
(* k |-> what it added to the counters]; c is the context it runs in:       *)
(*   c.lit   the literal constraints      c.vmap  var_map_                  *)
(*   c.ext   the enabled extensions       c.vb    the analyzer's bounds     *)
(*   c.depth recur_depth_                 c.vm    the analyzer's modular    *)
(*   c.known the inequalities the analyzer holds     sets of variables      *)

\* nv nodes_visited, ra rewrites_attempted, rp rewrites_performed,
\* nr num_recursive_rewrites, md max_recursive_depth, ce constraints_entered
\* by a visitor; ghost: mf replacements
\* made by the rewrite macros, dr replacements returned without them, ub a
\* division or remainder by zero evaluated
Zero ==
  [nv |-> 0, ra |-> 0, rp |-> 0, nr |-> 0, md |-> 0, ce |-> 0, mf |-> 0, dr |-> 0,
   ub |-> FALSE]
Plus(j, k) ==
  [nv |-> j.nv + k.nv, ra |-> j.ra + k.ra, rp |-> j.rp + k.rp, nr |-> j.nr + k.nr,
   md |-> MaxI(j.md, k.md), ce |-> j.ce + k.ce, mf |-> j.mf + k.mf, dr |-> j.dr + k.dr,
   ub |-> j.ub \/ k.ub]
\* same says that the visit returned the very node it was given
R(e, k) == [e |-> e, k |-> k, same |-> FALSE]
Same(e, k) == [e |-> e, k |-> k, same |-> TRUE]

kTransitivelyProveInequalities == "TransitivelyProveInequalities"
kComparisonOfProductAndSum == "ComparisonOfProductAndSum"
kApplyConstraintsToBooleanBranches == "ApplyConstraintsToBooleanBranches"
kConvertBooleanToAndOfOrs == "ConvertBooleanToAndOfOrs"

-----------------------------------------------------------------------------
(* The pattern language.  A pattern is an expression tree whose leaves may  *)
(* also be <<"?", name>> (PVar<PrimExpr>), <<"?c", name>> (PVar<IntImm>) or *)
(* <<"#", ref, n>> (PConstWithTypeLike: the literal n typed like ref).      *)

Add(a, b) == <<"add", a, b>>
Sub(a, b) == <<"sub", a, b>>
Mul(a, b) == <<"mul", a, b>>
Div(a, b) == <<"div", a, b>>
Mod(a, b) == <<"mod", a, b>>
FloorDiv(a, b) == <<"floordiv", a, b>>
FloorMod(a, b) == <<"floormod", a, b>>
Min(a, b) == <<"min", a, b>>
Max(a, b) == <<"max", a, b>>
EQ(a, b) == <<"eq", a, b>>
NE(a, b) == <<"ne", a, b>>
LT(a, b) == <<"lt", a, b>>
LE(a, b) == <<"le", a, b>>
GT(a, b) == <<"gt", a, b>>
GE(a, b) == <<"ge", a, b>>
And(a, b) == <<"and", a, b>>
Or(a, b) == <<"or", a, b>>

px == <<"?", "x">>
py == <<"?", "y">>
pz == <<"?", "z">>
pb1 == <<"?", "b1">>
pb2 == <<"?", "b2">>
ps1 == <<"?", "s1">>
ps2 == <<"?", "s2">>
pc1 == <<"?c", "c1">>
pc2 == <<"?c", "c2">>
pc3 == <<"?c", "c3">>
PConstWithTypeLike(ref, n) == <<"#", ref, n>>
K(ref, n) == PConstWithTypeLike(ref, n)
PMatchesOneOf(ps) == <<"oneof", ps>>

Unbound == <<"unbound">>
NoMatch == [ok |-> FALSE]
InitMatch ==
  [ok |-> TRUE, x |-> Unbound, y |-> Unbound, z |-> Unbound, b1 |-> Unbound,
   b2 |-> Unbound, s1 |-> Unbound, s2 |-> Unbound, c1 |-> Unbound,
   c2 |-> Unbound, c3 |-> Unbound]

\* PVar::Match_: the first occurrence binds, a later one must be deep-equal
MatchVar(n, e, b) ==
  IF b[n] = Unbound THEN [b EXCEPT ![n] = e]
  ELSE IF b[n] = e THEN b ELSE NoMatch

RECURSIVE Match_(_, _, _)
Match_(p, e, b) ==
  IF ~b.ok THEN b
  ELSE CASE Kind(p) = "?" -> MatchVar(p[2], e, b)
         [] Kind(p) = "?c" -> IF IsLit(e) THEN MatchVar(p[2], e, b) ELSE NoMatch
         [] Kind(p) = "#" -> IF IsLit(e) /\ LitNum(e) = p[3] THEN b ELSE NoMatch
         [] IsLeaf(p) -> IF p = e THEN b ELSE NoMatch
         [] Kind(p) = "not" ->
              IF Kind(e) = "not" THEN Match_(A(p), A(e), b) ELSE NoMatch
         [] OTHER ->
              IF Kind(e) = Kind(p) THEN Match_(B(p), B(e), Match_(A(p), A(e), b))
              ELSE NoMatch

\* Pattern::Match: PMatchesOneOf tries its alternatives in order, each from a
\* fresh binding
MatchOneOfBody(ps, i, e) ==
  IF i > Len(ps) THEN NoMatch
  ELSE LET b == Match_(ps[i], e, InitMatch)
       IN IF b.ok THEN b ELSE MatchOneOf(ps, i + 1, e)
MatchBody(p, e) ==
  IF Kind(p) = "oneof" THEN MatchOneOf(p[2], 1, e) ELSE Match_(p, e, InitMatch)

\* Pattern::Eval: build the result, folding constants eagerly
EvalBody(p, b) ==
  CASE Kind(p) \in {"?", "?c"} -> b[p[2]]
    [] Kind(p) = "#" -> MakeConst(DType(Eval(p[2], b)), p[3])
    [] IsLeaf(p) -> p
    [] Kind(p) = "not" -> PNot(Eval(A(p), b))
    [] OTHER -> P(Kind(p), Eval(A(p), b), Eval(B(p), b))

\* c.Eval()->value of a bound PVar<IntImm>
V(b, n) == LitNum(b[n])

-----------------------------------------------------------------------------
(* The rewrite macros and the recursive-rewrite driver *)

\* deepest nesting of RecursiveRewrite before it returns its argument unvisited
kMaxRecurDepth == 5

RecordAttemptedRewrite(k) == [k EXCEPT !.ra = @ + 1]
\* RecordRewrite(): one more rewrite performed.  The macros call it and go on
\* to return, so running out of budget can only leave the simplifier through
\* the caller: the call that exceeds the budget does not return
\* (RewriteBudgetExceeded, decided on the total in the actions below)
RecordRewrite(k) == [k EXCEPT !.rp = @ + 1]
RewriteBudgetExceeded(performed, maximum) == performed > maximum
\* the budget of a simplifier nobody configured: large enough for any input
DefaultMaximumRewriteSteps == 1000

\* what trying one rule gives: no match (with the cost of trying), or the
\* replacement; rec says that the replacement re-enters the simplifier; mf is
\* the ghost count of macro firings
Miss(k) == [hit |-> FALSE, end |-> FALSE, k |-> k]
Hit(res, rec, k) == [hit |-> TRUE, res |-> res, rec |-> rec, k |-> k]
Skip == Miss(Zero)
\* past the last rule of a table
End == [hit |-> FALSE, end |-> TRUE]
Fired(k) == [k EXCEPT !.mf = @ + 1]
Pure(v) == [v |-> v, k |-> Zero]

TVM_TRY_REWRITE(src, res, ret) ==
  LET b == Match(src, ret)
  IN IF b.ok THEN Hit(Eval(res, b), FALSE, Fired(RecordRewrite(RecordAttemptedRewrite(Zero))))
     ELSE Miss(RecordAttemptedRewrite(Zero))

TVM_TRY_RECURSIVE_REWRITE(src, res, ret) ==
  LET b == Match(src, ret)
  IN IF b.ok THEN Hit(Eval(res, b), TRUE, Fired(RecordRewrite(RecordAttemptedRewrite(Zero))))
     ELSE Miss(RecordAttemptedRewrite(Zero))

TVM_TRY_REWRITE_IF(src, res, CondExpr(_), ret) ==
  LET b == Match(src, ret)
  IN IF ~b.ok THEN Miss(RecordAttemptedRewrite(Zero))
     ELSE LET g == CondExpr(b)
          IN IF g.v
             THEN Hit(Eval(res, b), FALSE, Fired(RecordRewrite(RecordAttemptedRewrite(g.k))))
             ELSE Miss(RecordAttemptedRewrite(g.k))

TVM_TRY_RECURSIVE_REWRITE_IF(src, res, CondExpr(_), ret) ==
  LET b == Match(src, ret)
  IN IF ~b.ok THEN Miss(RecordAttemptedRewrite(Zero))
     ELSE LET g == CondExpr(b)
          IN IF g.v
             THEN Hit(Eval(res, b), TRUE, Fired(RecordRewrite(RecordAttemptedRewrite(g.k))))
             ELSE Miss(RecordAttemptedRewrite(g.k))

\* `return ret;` in the middle of a visitor: the node itself, no rule fired
Keep(ret) == [hit |-> TRUE, res |-> ret, rec |-> FALSE, k |-> Zero, keep |-> TRUE]
\* a replacement returned by a visitor without the macros
Direct(res, rec, k) == Hit(res, rec, [k EXCEPT !.dr = @ + 1])

\* g1 && g2 of two guards, the second evaluated only when the first holds
AndThen(g1, g2) == IF g1.v THEN [v |-> g2.v, k |-> Plus(g1.k, g2.k)] ELSE g1
OrElse(g1, g2) == IF g1.v THEN g1 ELSE [v |-> g2.v, k |-> Plus(g1.k, g2.k)]


\* RewriteSimplifier::operator(): at most max_iter passes of the core
max_iter == 2
\* an entry that never stops early
RewriteSimplifyTwice(e, c) ==
  LET p1 == VisitExpr(e, c)
      p2 == VisitExpr(p1.e, c)
  IN [e |-> p2.e, k |-> Plus(p1.k, p2.k), same |-> FALSE, passes |-> 2]
RewriteSimplifyBody(e, c) ==
  LET p1 == VisitExpr(e, c)
      p2 == VisitExpr(p1.e, c)
  IN IF p1.same THEN [e |-> e, k |-> p1.k, same |-> TRUE, passes |-> 1]
     ELSE [e |-> p2.e, k |-> Plus(p1.k, p2.k), same |-> FALSE, passes |-> 2]

\* RecursiveRewrite(x): re-enter the simplifier on x, one level deeper
RecursiveRewrite(x, c) ==
  LET k0 == [Zero EXCEPT !.nr = 1]
  IN IF c.depth >= kMaxRecurDepth THEN R(x, k0)
     ELSE LET r == VisitExpr(x, [c EXCEPT !.depth = @ + 1])
          IN R(r.e, Plus(Plus(k0, [Zero EXCEPT !.md = c.depth + 1]), r.k))

\* what the rules js of a table cost together
RECURSIVE Tried(_, _)
Tried(rs, js) ==
  IF js = {} THEN Zero
  ELSE LET j == CHOOSE i \in js : TRUE IN Plus(rs[j].k, Tried(rs, js \ {j}))

\* what the inequalities held say directly about x and y
KnownDirectly(x, y, held) ==
  CASE LT(x, y) \in held \/ GT(y, x) \in held -> kLT
    [] LT(y, x) \in held \/ GT(x, y) \in held -> kGT
    [] EQ(x, y) \in held \/ EQ(y, x) \in held -> kEQ
    [] LE(x, y) \in held \/ GE(y, x) \in held -> kLE
    [] LE(y, x) \in held \/ GE(x, y) \in held -> kGE
    [] NE(x, y) \in held \/ NE(y, x) \in held -> kNE
    [] OTHER -> kUnknown
\* what x ? m and m ? y say about x and y
Chain(r1, r2) ==
  CASE r1 = kEQ -> r2
    [] r2 = kEQ -> r1
    [] r1 \subseteq kLE /\ r2 \subseteq kLE -> IF r1 = kLT \/ r2 = kLT THEN kLT ELSE kLE
    [] r1 \subseteq kGE /\ r2 \subseteq kGE -> IF r1 = kGT \/ r2 = kGT THEN kGT ELSE kGE
    [] OTHER -> kUnknown
\* analyzer_->transitive_comparisons.TryCompare(x, y, propagate): what the
\* inequalities known to the analyzer (c.known) say about x and y, directly
\* and, when propagate is set, through one expression in between
TransitiveCompare(x, y, propagate, c) ==
  LET direct == KnownDirectly(x, y, c.known)
      between == {A(t) : t \in c.known} \cup {B(t) : t \in c.known}
      chained == {r \in kUnknown :
                    \A m \in between \ {x, y} :
                      r \in Chain(KnownDirectly(x, m, c.known), KnownDirectly(m, y, c.known))}
  IN IF propagate THEN direct \cap chained ELSE direct

\* a TryCompare(x, val) that intersects what the bound and the modular set say
TryCompareIntersected(x, val, c) ==
  LET d == VisitExpr(x, c)
      dbound == ConstIntBound(d.e, c)
      dmod == ModularSet(d.e, c)
      lower == IF dbound.min_value > val THEN kGT
               ELSE IF dbound.min_value >= val THEN kGE ELSE kUnknown
      upper == IF dbound.max_value < val THEN kLT
               ELSE IF dbound.max_value <= val THEN kLE ELSE kUnknown
      apart == IF val = 0 /\ dmod.base # 0 THEN kNE ELSE kUnknown
  IN [v |-> (lower \cap upper) \cap apart, k |-> d.k]

\* TryCompare(x, val): compare x with the literal val by bounds and modular set
TryCompareBody(x, val, c) ==
  LET d == VisitExpr(x, c)
      diff == d.e
      dbound == ConstIntBound(diff, c)
      dmod == ModularSet(diff, c)
      v == CASE IsInt(diff) \/ Is(diff, "uint") \/ IsBool(diff) ->
                  (IF LitNum(diff) = val THEN kEQ
                   ELSE IF LitNum(diff) > val THEN kGT ELSE kLT)
             [] dbound.min_value = val /\ dbound.max_value = val -> kEQ
             [] dbound.min_value > val -> kGT
             [] dbound.max_value < val -> kLT
             [] dbound.min_value >= val -> kGE
             [] dbound.max_value <= val -> kLE
             [] val = 0 /\ dmod.base # 0 -> kNE
             [] OTHER -> kUnknown
  IN [v |-> v, k |-> d.k]

TryCompareUsingConstIntBounds(x, y, c) == TryCompare(P("sub", x, y), 0, c)

\* a known-inequalities layer that propagates whatever the extensions are
AlwaysPropagate(x, y, c) == TransitiveCompare(x, y, TRUE, c)

TryCompareUsingKnownInequalities(x, y, c) ==
  LET propagate_inequalities == kTransitivelyProveInequalities \in c.ext
  IN TransitiveCompare(x, y, propagate_inequalities, c)

\* an is_finished that never stops the comparison
never_finished(output) == FALSE

is_finished(output) == output = kEQ \/ output = kLT \/ output = kGT

-----------------------------------------------------------------------------
(* The visitors.  Each rule table lists the scalar rules of the visitor in  *)
(* source order; i is the position in the table, ret the node rebuilt from  *)
(* the simplified children.                                                 *)

\* VisitExpr_(const AddNode*): the index rules
AddRules(i, ret, c) ==
  IF ~IsIndexType(DType(ret)) THEN End
  ELSE
  CASE i = 1 ->
         TVM_TRY_REWRITE(Add(Sub(px, py), py),
             px, ret)
    [] i = 2 ->
         TVM_TRY_REWRITE(Add(px, Sub(py, px)),
             py, ret)
    [] i = 3 ->
         TVM_TRY_REWRITE(Add(Sub(px, py), Sub(py, pz)),
             Sub(px, pz), ret)
    [] i = 4 ->
         TVM_TRY_REWRITE(Add(Sub(px, py), Sub(pz, px)),
             Sub(pz, py), ret)
    [] i = 5 ->
         TVM_TRY_REWRITE(Add(Min(px, Sub(py, pz)), pz),
             Min(Add(px, pz), py), ret)
    [] i = 6 ->
         TVM_TRY_REWRITE(Add(Min(Sub(px, pz), py), pz),
             Min(px, Add(py, pz)), ret)
    [] i = 7 ->
         TVM_TRY_REWRITE(Add(Max(px, Sub(py, pz)), pz),
             Max(Add(px, pz), py), ret)
    [] i = 8 ->
         TVM_TRY_REWRITE(Add(Max(Sub(px, pz), py), pz),
             Max(px, Add(py, pz)), ret)
    [] i = 9 ->
         TVM_TRY_REWRITE_IF(Add(Min(px, Add(py, Mul(pz, pc1))), Mul(pz, pc2)),
             Min(Add(px, Mul(pz, pc2)), py),
             LAMBDA b: Pure(V(b, "c1") = -V(b, "c2")), ret)
    [] i = 10 ->
         TVM_TRY_REWRITE_IF(Add(Max(px, Add(py, Mul(pz, pc1))), Mul(pz, pc2)),
             Max(Add(px, Mul(pz, pc2)), py),
             LAMBDA b: Pure(V(b, "c1") = -V(b, "c2")), ret)
    [] i = 11 ->
         TVM_TRY_REWRITE_IF(Add(Min(Add(py, Mul(pz, pc1)), px), Mul(pz, pc2)),
             Min(Add(px, Mul(pz, pc2)), py),
             LAMBDA b: Pure(V(b, "c1") = -V(b, "c2")), ret)
    [] i = 12 ->
         TVM_TRY_REWRITE_IF(Add(Max(Add(py, Mul(pz, pc1)), px), Mul(pz, pc2)),
             Max(Add(px, Mul(pz, pc2)), py),
             LAMBDA b: Pure(V(b, "c1") = -V(b, "c2")), ret)
    [] i = 13 ->
         TVM_TRY_REWRITE(PMatchesOneOf(<<Add(Max(px, py), Min(px, py)), Add(Min(px, py), Max(px, py)), Add(Max(px, py), Min(py, px)), Add(Min(px, py), Max(py, px))>>),
             Add(px, py), ret)
    [] i = 14 ->
         TVM_TRY_REWRITE_IF(Add(Min(px, Add(py, pc1)), pc2),
             Min(Add(px, pc2), py),
             LAMBDA b: Pure(V(b, "c1") = -V(b, "c2")), ret)
    [] i = 15 ->
         TVM_TRY_REWRITE_IF(Add(Min(Add(px, pc1), py), pc2),
             Min(px, Add(py, pc2)),
             LAMBDA b: Pure(V(b, "c1") = -V(b, "c2")), ret)
    [] i = 16 ->
         TVM_TRY_REWRITE_IF(Add(Max(px, Add(py, pc1)), pc2),
             Max(Add(px, pc2), py),
             LAMBDA b: Pure(V(b, "c1") = -V(b, "c2")), ret)
    [] i = 17 ->
         TVM_TRY_REWRITE_IF(Add(Max(Add(px, pc1), py), pc2),
             Max(px, Add(py, pc2)),
             LAMBDA b: Pure(V(b, "c1") = -V(b, "c2")), ret)
    [] i = 18 ->
         TVM_TRY_REWRITE(Add(Add(px, pc1), pc2),
             Add(px, Add(pc1, pc2)), ret)
    [] i = 19 ->
         TVM_TRY_REWRITE(Add(px, px),
             Mul(px, K(px, 2)), ret)
    [] i = 20 ->
         TVM_TRY_REWRITE(PMatchesOneOf(<<Add(Mul(px, py), px), Add(Mul(py, px), px), Add(px, Mul(py, px)), Add(px, Mul(px, py))>>),
             Mul(Add(py, K(py, 1)), px), ret)
    [] i = 21 ->
         TVM_TRY_REWRITE(PMatchesOneOf(<<Add(Mul(px, py), Mul(px, pz)), Add(Mul(py, px), Mul(px, pz)), Add(Mul(px, py), Mul(pz, px)), Add(Mul(py, px), Mul(pz, px))>>),
             Mul(Add(py, pz), px), ret)
    [] i = 22 ->
         TVM_TRY_REWRITE(Add(Mul(Div(px, pc1), pc1), Mod(px, pc1)),
             px, ret)
    [] i = 23 ->
         TVM_TRY_REWRITE(PMatchesOneOf(<<Add(Mul(FloorDiv(px, py), py), FloorMod(px, py)), Add(Mul(py, FloorDiv(px, py)), FloorMod(px, py)), Add(FloorMod(px, py), Mul(FloorDiv(px, py), py)), Add(FloorMod(px, py), Mul(py, FloorDiv(px, py)))>>),
             px, ret)
    [] i = 24 ->
         TVM_TRY_REWRITE_IF(Add(FloorDiv(Add(FloorMod(px, pc2), pc1), pc2), FloorDiv(px, pc2)),
             FloorDiv(Add(px, pc1), pc2),
             LAMBDA b: Pure(V(b, "c2") > 0), ret)
    [] i = 25 ->
         TVM_TRY_RECURSIVE_REWRITE(Add(FloorDiv(px, K(px, 2)), FloorMod(px, K(px, 2))),
             FloorDiv(Add(px, K(px, 1)), K(px, 2)), ret)
    [] i = 26 ->
         TVM_TRY_REWRITE_IF(Add(FloorMod(Add(px, pc1), K(px, 2)), FloorMod(px, K(px, 2))),
             K(px, 1),
             LAMBDA b: Pure(floormod(V(b, "c1"), 2) = 1), ret)
    [] i = 27 ->
         TVM_TRY_REWRITE_IF(Add(FloorMod(px, K(px, 2)), FloorMod(Add(px, pc1), K(px, 2))),
             K(px, 1),
             LAMBDA b: Pure(floormod(V(b, "c1"), 2) = 1), ret)
    [] i = 28 ->
         TVM_TRY_RECURSIVE_REWRITE(PMatchesOneOf(<<Add(px, Sub(pc1, py)), Add(Sub(pc1, py), px)>>),
             Add(Sub(px, py), pc1), ret)
    [] i = 29 ->
         TVM_TRY_RECURSIVE_REWRITE(PMatchesOneOf(<<Add(Add(px, pc1), py), Add(px, Add(pc1, py)), Add(px, Add(py, pc1))>>),
             Add(Add(px, py), pc1), ret)
    [] i = 30 ->
         TVM_TRY_RECURSIVE_REWRITE(Add(px, Max(py, pz)),
             Add(Max(py, pz), px), ret)
    [] i = 31 ->
         TVM_TRY_RECURSIVE_REWRITE(Add(px, Min(py, pz)),
             Add(Min(py, pz), px), ret)
    [] i = 32 ->
         TVM_TRY_RECURSIVE_REWRITE(Add(Mod(py, pc1), Mul(px, pc1)),
             Add(Mul(px, pc1), Mod(py, pc1)), ret)
    [] i = 33 ->
         TVM_TRY_RECURSIVE_REWRITE(Add(FloorMod(py, pc1), Mul(px, pc1)),
             Add(Mul(px, pc1), FloorMod(py, pc1)), ret)
    [] OTHER -> End

\* CanProveEqual(x, val), CanProveGreaterEqual(x, val), CanProveLess(x, val):
\* the proof shortcuts; the last two simplify x and consult its bound
CanProveEqualBody(x, val, c) ==
  LET r == TryCompare(x, val, c) IN [v |-> r.v = kEQ, k |-> r.k]
CanProveGreaterEqualBody(x, val, c) ==
  IF IsLit(x) THEN Pure(LitNum(x) >= val)
  ELSE LET r == RewriteSimplify(x, c)
       IN [v |-> ConstIntBound(r.e, c).min_value >= val, k |-> r.k]
CanProveLessBody(x, val, c) ==
  IF IsLit(x) THEN Pure(LitNum(x) < val)
  ELSE LET r == RewriteSimplify(x, c)
       IN [v |-> ConstIntBound(r.e, c).max_value < val, k |-> r.k]

\* VisitExpr_(const SubNode*): the index rules, else the cancellation rules
\* a Sub visitor whose index rules were left out
NoSubRules(i, ret, c) == End

SubRules(i, ret, c) ==
  IF IsIndexType(DType(ret)) THEN
  CASE i = 1 ->
         TVM_TRY_REWRITE(PMatchesOneOf(<<Sub(Add(px, py), py), Sub(Add(py, px), py)>>),
             px, ret)
    [] i = 2 ->
         TVM_TRY_REWRITE(PMatchesOneOf(<<Sub(px, Add(py, px)), Sub(px, Add(px, py))>>),
             Sub(K(py, 0), py), ret)
    [] i = 3 ->
         TVM_TRY_REWRITE(PMatchesOneOf(<<Sub(Min(px, py), py), Sub(px, Max(py, px))>>),
             Min(Sub(px, py), K(px, 0)), ret)
    [] i = 4 ->
         TVM_TRY_REWRITE(PMatchesOneOf(<<Sub(px, Max(px, py)), Sub(Min(py, px), py)>>),
             Min(K(px, 0), Sub(px, py)), ret)
    [] i = 5 ->
         TVM_TRY_REWRITE(PMatchesOneOf(<<Sub(Max(px, py), py), Sub(px, Min(py, px))>>),
             Max(Sub(px, py), K(px, 0)), ret)
    [] i = 6 ->
         TVM_TRY_REWRITE(PMatchesOneOf(<<Sub(px, Min(px, py)), Sub(Max(py, px), py)>>),
             Max(K(px, 0), Sub(px, py)), ret)
    [] i = 7 ->
         TVM_TRY_REWRITE(Sub(px, px),
             K(px, 0), ret)
    [] i = 8 ->
         TVM_TRY_REWRITE(PMatchesOneOf(<<Sub(Mul(px, py), px), Sub(Mul(py, px), px)>>),
             Mul(Sub(py, K(py, 1)), px), ret)
    [] i = 9 ->
         TVM_TRY_REWRITE(PMatchesOneOf(<<Sub(px, Mul(py, px)), Sub(px, Mul(px, py))>>),
             Mul(Sub(K(py, 1), py), px), ret)
    [] i = 10 ->
         TVM_TRY_REWRITE(PMatchesOneOf(<<Sub(Mul(px, py), Mul(px, pz)), Sub(Mul(py, px), Mul(px, pz)), Sub(Mul(px, py), Mul(pz, px)), Sub(Mul(py, px), Mul(pz, px))>>),
             Mul(Sub(py, pz), px), ret)
    [] i = 11 ->
         TVM_TRY_REWRITE(Sub(Add(px, pc1), pc2),
             Add(px, Sub(pc1, pc2)), ret)
    [] i = 12 ->
         TVM_TRY_REWRITE(Sub(Sub(pc1, px), Sub(pc2, py)),
             Add(Sub(py, px), Sub(pc1, pc2)), ret)
    [] i = 13 ->
         TVM_TRY_REWRITE(PMatchesOneOf(<<Sub(Add(px, py), Add(px, pz)), Sub(Add(px, py), Add(pz, px)), Sub(Add(py, px), Add(pz, px)), Sub(Add(py, px), Add(px, pz))>>),
             Sub(py, pz), ret)
    [] i = 14 ->
         TVM_TRY_REWRITE(PMatchesOneOf(<<Sub(Min(Add(px, py), pz), px), Sub(Min(Add(py, px), pz), px)>>),
             Min(py, Sub(pz, px)), ret)
    [] i = 15 ->
         TVM_TRY_REWRITE(PMatchesOneOf(<<Sub(Min(pz, Add(px, py)), px), Sub(Min(pz, Add(py, px)), px)>>),
             Min(Sub(pz, px), py), ret)
    [] i = 16 ->
         TVM_TRY_REWRITE(PMatchesOneOf(<<Sub(Max(Add(px, py), pz), px), Sub(Max(Add(py, px), pz), px)>>),
             Max(py, Sub(pz, px)), ret)
    [] i = 17 ->
         TVM_TRY_REWRITE(PMatchesOneOf(<<Sub(Max(pz, Add(px, py)), px), Sub(Max(pz, Add(py, px)), px)>>),
             Max(Sub(pz, px), py), ret)
    [] i = 18 ->
         TVM_TRY_REWRITE(PMatchesOneOf(<<Sub(px, Min(Add(px, py), pz)), Sub(px, Min(Add(py, px), pz))>>),
             Max(Sub(K(py, 0), py), Sub(px, pz)), ret)
    [] i = 19 ->
         TVM_TRY_REWRITE(PMatchesOneOf(<<Sub(px, Min(pz, Add(px, py))), Sub(px, Min(pz, Add(py, px)))>>),
             Max(Sub(px, pz), Sub(K(py, 0), py)), ret)
    [] i = 20 ->
         TVM_TRY_REWRITE(PMatchesOneOf(<<Sub(px, Max(Add(px, py), pz)), Sub(px, Max(Add(py, px), pz))>>),
             Min(Sub(K(py, 0), py), Sub(px, pz)), ret)
    [] i = 21 ->
         TVM_TRY_REWRITE(PMatchesOneOf(<<Sub(px, Max(pz, Add(px, py))), Sub(px, Max(pz, Add(py, px)))>>),
             Min(Sub(px, pz), Sub(K(py, 0), py)), ret)
    [] i = 22 ->
         TVM_TRY_REWRITE(Sub(Min(px, py), Min(py, px)),
             K(px, 0), ret)
    [] i = 23 ->
         TVM_TRY_REWRITE(Sub(Max(px, py), Max(py, px)),
             K(px, 0), ret)
    [] i = 24 ->
         TVM_TRY_REWRITE_IF(PMatchesOneOf(<<Sub(Min(pb1, pb2), Min(ps1, ps2)), Sub(Min(pb1, pb2), Min(ps2, ps1))>>),
             Sub(pb1, ps1),
             LAMBDA b: CanProveEqual(Eval(Sub(Sub(pb1, ps1), Sub(pb2, ps2)), b), 0, c), ret)
    [] i = 25 ->
         TVM_TRY_REWRITE_IF(PMatchesOneOf(<<Sub(Max(pb1, pb2), Max(ps1, ps2)), Sub(Max(pb1, pb2), Max(ps2, ps1))>>),
             Sub(pb1, ps1),
             LAMBDA b: CanProveEqual(Eval(Sub(Sub(pb1, ps1), Sub(pb2, ps2)), b), 0, c), ret)
    [] i = 26 ->
         TVM_TRY_REWRITE_IF(Sub(px, Mul(Div(px, pc1), pc1)),
             Mod(px, pc1),
             LAMBDA b: Pure(V(b, "c1") # 0), ret)
    [] i = 27 ->
         TVM_TRY_REWRITE_IF(Sub(Mul(Div(px, pc1), pc1), px),
             Sub(K(px, 0), Mod(px, pc1)),
             LAMBDA b: Pure(V(b, "c1") # 0), ret)
    [] i = 28 ->
         TVM_TRY_REWRITE_IF(Sub(px, Mul(Div(Add(px, py), pc1), pc1)),
             Sub(Mod(Add(px, py), pc1), py),
             LAMBDA b: Pure(V(b, "c1") # 0), ret)
    [] i = 29 ->
         TVM_TRY_REWRITE_IF(Sub(Mul(Div(Add(px, py), pc1), pc1), px),
             Sub(py, Mod(Add(px, py), pc1)),
             LAMBDA b: Pure(V(b, "c1") # 0), ret)
    [] i = 30 ->
         TVM_TRY_REWRITE_IF(Sub(px, Mul(Div(Sub(px, py), pc1), pc1)),
             Add(Mod(Sub(px, py), pc1), py),
             LAMBDA b: Pure(V(b, "c1") # 0), ret)
    [] i = 31 ->
         TVM_TRY_REWRITE_IF(Sub(Mul(Div(Sub(px, py), pc1), pc1), px),
             Sub(Sub(K(px, 0), Mod(Sub(px, py), pc1)), py),
             LAMBDA b: Pure(V(b, "c1") # 0), ret)
    [] i = 32 ->
         TVM_TRY_REWRITE_IF(Sub(Mul(px, pc2), Mul(Div(px, pc1), pc3)),
             Mul(Mod(px, pc1), pc2),
             LAMBDA b: Pure(V(b, "c1") # 0 /\ V(b, "c3") = V(b, "c1") * V(b, "c2")), ret)
    [] i = 33 ->
         TVM_TRY_REWRITE_IF(Sub(Mul(Div(px, pc1), pc3), Mul(px, pc2)),
             Sub(K(px, 0), Mul(Mod(px, pc1), pc2)),
             LAMBDA b: Pure(V(b, "c1") # 0 /\ V(b, "c3") = V(b, "c1") * V(b, "c2")), ret)
    [] i = 34 ->
         TVM_TRY_REWRITE_IF(Sub(Mul(px, pc2), Mul(Div(Add(px, py), pc1), pc3)),
             Mul(Sub(Mod(Add(px, py), pc1), py), pc2),
             LAMBDA b: Pure(V(b, "c1") # 0 /\ V(b, "c3") = V(b, "c1") * V(b, "c2")), ret)
    [] i = 35 ->
         TVM_TRY_REWRITE_IF(Sub(Mul(Div(Add(px, py), pc1), pc3), Mul(px, pc2)),
             Mul(Sub(py, Mod(Add(px, py), pc1)), pc2),
             LAMBDA b: Pure(V(b, "c1") # 0 /\ V(b, "c3") = V(b, "c1") * V(b, "c2")), ret)
    [] i = 36 ->
         TVM_TRY_REWRITE_IF(Sub(Mul(px, pc2), Mul(Div(Sub(px, py), pc1), pc3)),
             Mul(Add(Mod(Sub(px, py), pc1), py), pc2),
             LAMBDA b: Pure(V(b, "c1") # 0 /\ V(b, "c3") = V(b, "c1") * V(b, "c2")), ret)
    [] i = 37 ->
         TVM_TRY_REWRITE_IF(Sub(Mul(Div(Sub(px, py), pc1), pc3), Mul(px, pc2)),
             Mul(Sub(Sub(K(px, 0), Mod(Sub(px, py), pc1)), py), pc2),
             LAMBDA b: Pure(V(b, "c1") # 0 /\ V(b, "c3") = V(b, "c1") * V(b, "c2")), ret)
    [] i = 38 ->
         TVM_TRY_REWRITE_IF(Sub(Div(Add(px, pc1), pc3), Div(Add(px, pc2), pc3)),
             Div(Add(Mod(Add(px, FloorMod(pc2, pc3)), pc3), Sub(pc1, pc2)), pc3),
             LAMBDA b: AndThen(CanProveGreaterEqual(b.x, -V(b, "c2"), c),
                                Pure(V(b, "c1") >= V(b, "c2") /\ V(b, "c3") > 0)), ret)
    [] i = 39 ->
         TVM_TRY_REWRITE_IF(Sub(Div(Add(px, pc1), pc3), Div(px, pc3)),
             Div(Add(Mod(px, pc3), pc1), pc3),
             LAMBDA b: AndThen(CanProveGreaterEqual(b.x, 0, c),
                                Pure(V(b, "c1") >= 0 /\ V(b, "c3") > 0)), ret)
    [] i = 40 ->
         TVM_TRY_REWRITE_IF(Sub(px, Mul(FloorDiv(px, pc1), pc1)),
             FloorMod(px, pc1),
             LAMBDA b: Pure(V(b, "c1") # 0), ret)
    [] i = 41 ->
         TVM_TRY_REWRITE_IF(Sub(Mul(FloorDiv(px, pc1), pc1), px),
             Sub(K(px, 0), FloorMod(px, pc1)),
             LAMBDA b: Pure(V(b, "c1") # 0), ret)
    [] i = 42 ->
         TVM_TRY_REWRITE_IF(Sub(px, Mul(FloorDiv(Add(px, py), pc1), pc1)),
             Sub(FloorMod(Add(px, py), pc1), py),
             LAMBDA b: Pure(V(b, "c1") # 0), ret)
    [] i = 43 ->
         TVM_TRY_REWRITE_IF(Sub(Mul(FloorDiv(Add(px, py), pc1), pc1), px),
             Sub(py, FloorMod(Add(px, py), pc1)),
             LAMBDA b: Pure(V(b, "c1") # 0), ret)
    [] i = 44 ->
         TVM_TRY_REWRITE_IF(Sub(px, Mul(FloorDiv(Sub(px, py), pc1), pc1)),
             Add(FloorMod(Sub(px, py), pc1), py),
             LAMBDA b: Pure(V(b, "c1") # 0), ret)
    [] i = 45 ->
         TVM_TRY_REWRITE_IF(Sub(Mul(FloorDiv(Sub(px, py), pc1), pc1), px),
             Sub(Sub(K(px, 0), FloorMod(Sub(px, py), pc1)), py),
             LAMBDA b: Pure(V(b, "c1") # 0), ret)
    [] i = 46 ->
         TVM_TRY_RECURSIVE_REWRITE(Sub(FloorDiv(Add(px, pc1), K(px, 2)), FloorDiv(Add(px, pc2), K(px, 2))),
             Add(Mul(FloorMod(px, K(px, 2)), Sub(FloorMod(pc1, K(pc1, 2)), FloorMod(pc2, K(pc2, 2)))),
                 Sub(FloorDiv(pc1, K(pc1, 2)), FloorDiv(pc2, K(pc2, 2)))), ret)
    [] i = 47 ->
         TVM_TRY_RECURSIVE_REWRITE(Sub(FloorDiv(px, K(px, 2)), FloorDiv(Add(px, pc2), K(px, 2))),
             Sub(Mul(FloorMod(px, K(px, 2)), Sub(K(pc2, 0), FloorMod(pc2, K(pc2, 2)))),
                 FloorDiv(pc2, K(pc2, 2))), ret)
    [] i = 48 ->
         TVM_TRY_RECURSIVE_REWRITE(Sub(FloorDiv(Add(px, pc1), K(px, 2)), FloorDiv(px, K(px, 2))),
             Add(Mul(FloorMod(px, K(px, 2)), FloorMod(pc1, K(pc1, 2))), FloorDiv(pc1, K(pc1, 2))), ret)
    [] i = 49 ->
         TVM_TRY_REWRITE_IF(Sub(Mul(px, pc2), Mul(FloorDiv(px, pc1), pc3)),
             Mul(FloorMod(px, pc1), pc2),
             LAMBDA b: Pure(V(b, "c1") # 0 /\ V(b, "c3") = V(b, "c1") * V(b, "c2")), ret)
    [] i = 50 ->
         TVM_TRY_REWRITE_IF(Sub(Mul(FloorDiv(px, pc1), pc3), Mul(px, pc2)),
             Sub(K(px, 0), Mul(FloorMod(px, pc1), pc2)),
             LAMBDA b: Pure(V(b, "c1") # 0 /\ V(b, "c3") = V(b, "c1") * V(b, "c2")), ret)
    [] i = 51 ->
         TVM_TRY_REWRITE_IF(Sub(Mul(px, pc2), Mul(FloorDiv(Add(px, py), pc1), pc3)),
             Mul(Sub(FloorMod(Add(px, py), pc1), py), pc2),
             LAMBDA b: Pure(V(b, "c1") # 0 /\ V(b, "c3") = V(b, "c1") * V(b, "c2")), ret)
    [] i = 52 ->
         TVM_TRY_REWRITE_IF(Sub(Mul(FloorDiv(Add(px, py), pc1), pc3), Mul(px, pc2)),
             Mul(Sub(py, FloorMod(Add(px, py), pc1)), pc2),
             LAMBDA b: Pure(V(b, "c1") # 0 /\ V(b, "c3") = V(b, "c1") * V(b, "c2")), ret)
    [] i = 53 ->
         TVM_TRY_REWRITE_IF(Sub(Mul(px, pc2), Mul(FloorDiv(Sub(px, py), pc1), pc3)),
             Mul(Add(FloorMod(Sub(px, py), pc1), py), pc2),
             LAMBDA b: Pure(V(b, "c1") # 0 /\ V(b, "c3") = V(b, "c1") * V(b, "c2")), ret)
    [] i = 54 ->
         TVM_TRY_REWRITE_IF(Sub(Mul(FloorDiv(Sub(px, py), pc1), pc3), Mul(px, pc2)),
             Mul(Sub(Sub(K(px, 0), FloorMod(Sub(px, py), pc1)), py), pc2),
             LAMBDA b: Pure(V(b, "c1") # 0 /\ V(b, "c3") = V(b, "c1") * V(b, "c2")), ret)
    [] i = 55 ->
         TVM_TRY_RECURSIVE_REWRITE(Sub(FloorDiv(Add(px, K(px, 1)), K(px, 2)), FloorMod(px, K(px, 2))),
             FloorDiv(px, K(px, 2)), ret)
    [] i = 56 ->
         TVM_TRY_REWRITE_IF(Sub(FloorDiv(Add(px, pc1), pc3), FloorDiv(Add(px, pc2), pc3)),
             FloorDiv(Add(FloorMod(Add(px, FloorMod(pc2, pc3)), pc3), Sub(pc1, pc2)), pc3),
             LAMBDA b: Pure(V(b, "c3") > 0), ret)
    [] i = 57 ->
         TVM_TRY_REWRITE_IF(Sub(FloorDiv(Add(px, pc1), pc3), FloorDiv(px, pc3)),
             FloorDiv(Add(FloorMod(px, pc3), pc1), pc3),
             LAMBDA b: Pure(V(b, "c3") > 0), ret)
    [] i = 58 ->
         TVM_TRY_REWRITE(Sub(px, pc1),
             Add(px, Sub(K(pc1, 0), pc1)), ret)
    [] i = 59 ->
         TVM_TRY_RECURSIVE_REWRITE(Sub(Add(px, pc1), py),
             Add(Sub(px, py), pc1), ret)
    [] i = 60 ->
         TVM_TRY_RECURSIVE_REWRITE(Sub(px, Add(py, pc1)),
             Add(Sub(px, py), Sub(K(pc1, 0), pc1)), ret)
    [] i = 61 ->
         TVM_TRY_RECURSIVE_REWRITE(Sub(px, Sub(py, pz)),
             Sub(Add(px, pz), py), ret)
    [] i = 62 ->
         TVM_TRY_RECURSIVE_REWRITE(Sub(px, Mul(py, pc1)),
             Add(px, Mul(py, Sub(K(pc1, 0), pc1))), ret)
    [] OTHER -> End
  ELSE
  CASE i = 1 ->
         TVM_TRY_REWRITE_IF(Sub(px, px),
             K(px, 0),
             LAMBDA b: Pure(SideEffectIsPure(b.x)), ret)
    [] i = 2 ->
         TVM_TRY_REWRITE_IF(Sub(Add(px, py), py),
             px,
             LAMBDA b: Pure(SideEffectIsPure(b.y)), ret)
    [] i = 3 ->
         TVM_TRY_REWRITE_IF(Sub(Add(px, py), px),
             py,
             LAMBDA b: Pure(SideEffectIsPure(b.x)), ret)
    [] i = 4 ->
         TVM_TRY_REWRITE_IF(Sub(px, Add(py, px)),
             Sub(K(py, 0), py),
             LAMBDA b: Pure(SideEffectIsPure(b.x)), ret)
    [] i = 5 ->
         TVM_TRY_REWRITE_IF(Sub(px, Add(px, py)),
             Sub(K(py, 0), py),
             LAMBDA b: Pure(SideEffectIsPure(b.x)), ret)
    [] OTHER -> End

\* a Mul visitor whose index rules were left out
NoMulRules(i, ret, c) == End

\* VisitExpr_(const MulNode*): the index rules
MulRules(i, ret, c) ==
  IF ~IsIndexType(DType(ret)) THEN End
  ELSE
  CASE i = 1 ->
         TVM_TRY_REWRITE(Mul(Add(px, pc1), pc2),
             Add(Mul(px, pc2), Mul(pc1, pc2)), ret)
    [] i = 2 ->
         TVM_TRY_REWRITE(Mul(Mul(px, pc1), pc2),
             Mul(px, Mul(pc1, pc2)), ret)
    [] i = 3 ->
         TVM_TRY_REWRITE(PMatchesOneOf(<<Mul(Min(px, py), Max(px, py)), Mul(Max(px, py), Min(px, py))>>),
             Mul(px, py), ret)
    [] i = 4 ->
         TVM_TRY_REWRITE_IF(Mul(FloorDiv(Sub(px, FloorMod(px, pc2)), pc1), pc1),
             Sub(px, FloorMod(px, pc2)),
             LAMBDA b: Pure(V(b, "c1") = -V(b, "c2")), ret)
    [] i = 5 ->
         TVM_TRY_RECURSIVE_REWRITE(Mul(px, Mul(pc1, py)),
             Mul(Mul(px, py), pc1), ret)
    [] i = 6 ->
         TVM_TRY_RECURSIVE_REWRITE(Mul(pc1, px),
             Mul(px, pc1), ret)
    [] i = 7 ->
         TVM_TRY_RECURSIVE_REWRITE_IF(Mul(Sub(px, py), pc1),
             Mul(Sub(py, px), Sub(K(pc1, 0), pc1)),
             LAMBDA b: Pure(V(b, "c1") < 0), ret)
    [] OTHER -> End

\* the C++ quotient and remainder where the build does not trap on a zero
\* divisor: the quotient is 0 and the remainder the dividend
CDiv(a, b) == IF b = 0 THEN 0 ELSE truncdiv(a, b)
CMod(a, b) == IF b = 0 THEN a ELSE truncmod(a, b)
\* the cost of a C++ division or remainder by d: undefined when d is zero
DivisionBy(d) == [Zero EXCEPT !.ub = (d = 0)]

\* VisitExpr_(const DivNode*): the index rules
DivRules(i, ret, c) ==
  IF ~IsIndexType(DType(ret)) THEN End
  ELSE
  CASE i = 1 ->
         IF Match(Div(pc1, pc2), ret).ok
       THEN LET c1val == LitNum(A(ret))
                c2val == LitNum(B(ret))
            IN Direct(MakeConst(DType(ret), Wrap(CDiv(c1val, c2val))), FALSE,
                      DivisionBy(c2val))
       ELSE Skip
    [] i = 2 ->
         TVM_TRY_REWRITE_IF(Div(Div(px, pc1), pc2),
             Div(px, Mul(pc1, pc2)),
             LAMBDA b: Pure(V(b, "c1") > 0 /\ V(b, "c2") > 0), ret)
    [] i = 3 ->
         TVM_TRY_REWRITE_IF(Div(Add(Div(px, pc1), pc2), pc3),
             Div(Add(px, Mul(pc1, pc2)), Mul(pc1, pc3)),
             LAMBDA b: AndThen(Pure(V(b, "c1") > 0 /\ V(b, "c2") >= 0 /\ V(b, "c3") > 0),
                 CanProveGreaterEqual(b.x, 0, c)), ret)
    [] i = 4 ->
         LET b == Match(Div(Mul(px, pc1), pc2), ret)
       IN IF b.ok /\ V(b, "c1") > 0 /\ V(b, "c2") > 0 /\ V(b, "c1") % V(b, "c2") = 0
          THEN Direct(Eval(Mul(px, Div(pc1, pc2)), b), FALSE, Zero)
          ELSE IF b.ok /\ V(b, "c1") > 0 /\ V(b, "c2") > 0 /\ V(b, "c2") % V(b, "c1") = 0
          THEN Direct(Eval(Div(px, Div(pc2, pc1)), b), FALSE, Zero)
          ELSE Skip
    [] i = 5 ->
         TVM_TRY_REWRITE(Div(px, px),
             K(px, 1), ret)
    [] i = 6 ->
         TVM_TRY_REWRITE(PMatchesOneOf(<<Div(Mul(px, pc1), px), Div(Mul(pc1, px), px)>>),
             pc1, ret)
    [] i = 7 ->
         TVM_TRY_REWRITE_IF(Div(Add(Mul(px, pc1), py), pc2),
             Add(Mul(px, Div(pc1, pc2)), Div(py, pc2)),
             LAMBDA b: AndThen(Pure(V(b, "c1") >= 0 /\ V(b, "c2") > 0 /\ V(b, "c1") % V(b, "c2") = 0),
                 AndThen(CanProveGreaterEqual(b.x, 0, c),
                 CanProveGreaterEqual(b.y, 0, c))), ret)
    [] i = 8 ->
         TVM_TRY_REWRITE_IF(Div(Min(Mul(px, pc1), py), pc2),
             Min(Mul(px, Div(pc1, pc2)), Div(py, pc2)),
             LAMBDA b: AndThen(Pure(V(b, "c1") >= 0 /\ V(b, "c2") > 0 /\ V(b, "c1") % V(b, "c2") = 0),
                 AndThen(CanProveGreaterEqual(b.x, 0, c),
                 CanProveGreaterEqual(b.y, 0, c))), ret)
    [] i = 9 ->
         TVM_TRY_REWRITE_IF(Div(Max(Mul(px, pc1), py), pc2),
             Max(Mul(px, Div(pc1, pc2)), Div(py, pc2)),
             LAMBDA b: AndThen(Pure(V(b, "c1") >= 0 /\ V(b, "c2") > 0 /\ V(b, "c1") % V(b, "c2") = 0),
                 AndThen(CanProveGreaterEqual(b.x, 0, c),
                 CanProveGreaterEqual(b.y, 0, c))), ret)
    [] i = 10 ->
         TVM_TRY_REWRITE_IF(Div(Add(py, Mul(px, pc1)), pc2),
             Add(Div(py, pc2), Mul(px, Div(pc1, pc2))),
             LAMBDA b: AndThen(Pure(V(b, "c1") >= 0 /\ V(b, "c2") > 0 /\ V(b, "c1") % V(b, "c2") = 0),
                 AndThen(CanProveGreaterEqual(b.x, 0, c),
                 CanProveGreaterEqual(b.y, 0, c))), ret)
    [] i = 11 ->
         TVM_TRY_REWRITE_IF(Div(Min(py, Mul(px, pc1)), pc2),
             Min(Div(py, pc2), Mul(px, Div(pc1, pc2))),
             LAMBDA b: AndThen(Pure(V(b, "c1") >= 0 /\ V(b, "c2") > 0 /\ V(b, "c1") % V(b, "c2") = 0),
                 AndThen(CanProveGreaterEqual(b.x, 0, c),
                 CanProveGreaterEqual(b.y, 0, c))), ret)
    [] i = 12 ->
         TVM_TRY_REWRITE_IF(Div(Max(py, Mul(px, pc1)), pc2),
             Max(Div(py, pc2), Mul(px, Div(pc1, pc2))),
             LAMBDA b: AndThen(Pure(V(b, "c1") >= 0 /\ V(b, "c2") > 0 /\ V(b, "c1") % V(b, "c2") = 0),
                 AndThen(CanProveGreaterEqual(b.x, 0, c),
                 CanProveGreaterEqual(b.y, 0, c))), ret)
    [] i = 13 ->
         TVM_TRY_REWRITE_IF(Div(Add(Add(Mul(px, pc1), py), pz), pc2),
             Add(Mul(px, Div(pc1, pc2)), Div(Add(py, pz), pc2)),
             LAMBDA b: AndThen(Pure(V(b, "c1") >= 0 /\ V(b, "c2") > 0 /\ V(b, "c1") % V(b, "c2") = 0),
                 AndThen(CanProveGreaterEqual(b.x, 0, c),
                 CanProveGreaterEqual(Eval(Add(py, pz), b), 0, c))), ret)
    [] i = 14 ->
         TVM_TRY_REWRITE_IF(Div(Add(Sub(Mul(px, pc1), py), pz), pc2),
             Add(Mul(px, Div(pc1, pc2)), Div(Sub(pz, py), pc2)),
             LAMBDA b: AndThen(Pure(V(b, "c1") >= 0 /\ V(b, "c2") > 0 /\ V(b, "c1") % V(b, "c2") = 0),
                 AndThen(CanProveGreaterEqual(b.x, 0, c),
                 CanProveGreaterEqual(Eval(Sub(pz, py), b), 0, c))), ret)
    [] i = 15 ->
         TVM_TRY_REWRITE_IF(Div(Sub(Add(Mul(px, pc1), py), pz), pc2),
             Add(Mul(px, Div(pc1, pc2)), Div(Sub(py, pz), pc2)),
             LAMBDA b: AndThen(Pure(V(b, "c1") >= 0 /\ V(b, "c2") > 0 /\ V(b, "c1") % V(b, "c2") = 0),
                 AndThen(CanProveGreaterEqual(b.x, 0, c),
                 CanProveGreaterEqual(Eval(Sub(py, pz), b), 0, c))), ret)
    [] i = 16 ->
         TVM_TRY_REWRITE_IF(Div(Add(Add(py, Mul(px, pc1)), pz), pc2),
             Add(Mul(px, Div(pc1, pc2)), Div(Add(py, pz), pc2)),
             LAMBDA b: AndThen(Pure(V(b, "c1") > 0 /\ V(b, "c2") > 0 /\ V(b, "c1") % V(b, "c2") = 0),
                 AndThen(CanProveGreaterEqual(b.x, 0, c),
                 CanProveGreaterEqual(Eval(Add(py, pz), b), 0, c))), ret)
    [] i = 17 ->
         TVM_TRY_REWRITE_IF(Div(Add(px, pc1), pc2),
             Add(Div(px, pc2), Div(pc1, pc2)),
             LAMBDA b: AndThen(Pure(V(b, "c1") > 0 /\ V(b, "c2") > 0 /\ V(b, "c1") % V(b, "c2") = 0),
                 CanProveGreaterEqual(b.x, 0, c)), ret)
    [] i = 18 ->
         TVM_TRY_REWRITE_IF(PMatchesOneOf(<<Div(Add(px, py), px), Div(Add(py, px), px)>>),
             Add(Div(py, px), K(py, 1)),
             LAMBDA b: AndThen(CanProveGreaterEqual(b.x, 0, c),
                 CanProveGreaterEqual(b.y, 0, c)), ret)
    [] i = 19 ->
         TVM_TRY_REWRITE_IF(PMatchesOneOf(<<Div(Add(Add(px, py), pz), px), Div(Add(Add(py, px), pz), px), Div(Add(py, Add(pz, px)), px), Div(Add(py, Add(px, pz)), px)>>),
             Add(Div(Add(py, pz), px), K(py, 1)),
             LAMBDA b: AndThen(CanProveGreaterEqual(b.x, 0, c),
                 CanProveGreaterEqual(Eval(Add(py, pz), b), 0, c)), ret)
    [] i = 20 ->
         TVM_TRY_REWRITE_IF(PMatchesOneOf(<<Div(Mul(px, py), py), Div(Mul(py, px), py)>>),
             px,
             LAMBDA b: AndThen(CanProveGreaterEqual(b.x, 0, c),
                 CanProveGreaterEqual(b.y, 0, c)), ret)
    [] i = 21 ->
         TVM_TRY_REWRITE_IF(PMatchesOneOf(<<Div(Add(Mul(px, pz), py), pz), Div(Add(Mul(pz, px), py), pz)>>),
             Add(px, Div(py, pz)),
             LAMBDA b: AndThen(CanProveGreaterEqual(b.x, 0, c),
                 AndThen(CanProveGreaterEqual(b.y, 0, c),
                 CanProveGreaterEqual(b.z, 0, c))), ret)
    [] i = 22 ->
         TVM_TRY_REWRITE_IF(PMatchesOneOf(<<Div(Add(py, Mul(px, pz)), pz), Div(Add(py, Mul(pz, px)), pz)>>),
             Add(Div(py, pz), px),
             LAMBDA b: AndThen(CanProveGreaterEqual(b.x, 0, c),
                 AndThen(CanProveGreaterEqual(b.y, 0, c),
                 CanProveGreaterEqual(b.z, 0, c))), ret)
    [] OTHER -> End

\* VisitExpr_(const ModNode*): the index rules
ModRules(i, ret, c) ==
  IF ~IsIndexType(DType(ret)) THEN End
  ELSE
  CASE i = 1 ->
         TVM_TRY_REWRITE_IF(Mod(Mul(px, pc1), pc2),
             K(px, 0),
             LAMBDA b: Pure(V(b, "c2") # 0 /\ V(b, "c1") % V(b, "c2") = 0), ret)
    [] i = 2 ->
         TVM_TRY_REWRITE_IF(Mod(Add(Mul(px, pc1), py), pc2),
             Mod(py, pc2),
             LAMBDA b: AndThen(Pure(V(b, "c2") > 0 /\ V(b, "c1") % V(b, "c2") = 0),
                 AndThen(CanProveGreaterEqual(Eval(Mul(px, pc1), b), 0, c),
                 CanProveGreaterEqual(b.y, 0, c))), ret)
    [] i = 3 ->
         TVM_TRY_REWRITE_IF(Mod(Add(px, pc1), pc2),
             Mod(px, pc2),
             LAMBDA b: AndThen(Pure(V(b, "c2") > 0 /\ V(b, "c1") >= 0 /\ V(b, "c1") % V(b, "c2") = 0),
                 CanProveGreaterEqual(b.x, 0, c)), ret)
    [] i = 4 ->
         TVM_TRY_REWRITE_IF(Mod(Add(px, Mul(py, pc1)), pc2),
             Mod(px, pc2),
             LAMBDA b: AndThen(Pure(V(b, "c2") > 0 /\ V(b, "c1") % V(b, "c2") = 0),
                 AndThen(CanProveGreaterEqual(b.x, 0, c),
                 CanProveGreaterEqual(Eval(Mul(py, pc1), b), 0, c))), ret)
    [] i = 5 ->
         LET b == Match(Mod(px, pc1), ret)
       IN IF ~b.ok THEN Miss(RecordAttemptedRewrite(Zero))
          ELSE IF V(b, "c1") < 0
          THEN Hit(P("mod", b.x, MakeConst(DType(ret), Wrap(-V(b, "c1")))), TRUE,
                   Fired(RecordRewrite(RecordAttemptedRewrite(Zero))))
          ELSE Miss(RecordAttemptedRewrite(Zero))
    [] i = 6 ->
         LET b == Match(Mod(px, pc1), ret)
           mod == ModularSet(b.x, c)
           c1val == V(b, "c1")
           g == AndThen([v |-> CMod(mod.coeff, c1val) = 0 /\ c1val > 0, k |-> DivisionBy(c1val)],
                        CanProveGreaterEqual(b.x, 0, c))
       IN IF ~b.ok THEN Skip
          ELSE IF g.v THEN Direct(P("mod", MakeConst(DType(ret), mod.base), b.c1), FALSE, g.k)
          ELSE Miss(g.k)
    [] OTHER -> End

\* ContainsVscaleCall(e): the modelled expressions hold no call
ContainsVscaleCall(e) == FALSE
\* CanProve(cond): the simplified condition is the literal true
CanProveBody(cond, c) ==
  LET r == RewriteSimplify(cond, c) IN [v |-> r.e = BoolImm(TRUE), k |-> r.k]

\* the residue / divisor block of the FloorDiv visitor
FloorDivResidueBody(ret, c) ==
  LET b == MatchOneOf(<<FloorDiv(Add(Mul(px, pc1), py), pc2), FloorDiv(Mul(px, pc1), pc2),
                        FloorDiv(Add(py, Mul(px, pc1)), pc2)>>, 1, ret)
      c1val == V(b, "c1")
      c2val == V(b, "c2")
      yval == IF b.y = Unbound THEN IntImm(0) ELSE b.y
      c2e == MakeConst(DType(b.c2), c2val)
      residue == P("floordiv", P("add", P("mul", b.x, P("floormod", b.c1, c2e)),
                                        P("floormod", yval, c2e)), c2e)
      zero == CanProveEqual(P("floordiv", yval, c2e), 0, c)
      y_div == IF zero.v THEN IntImm(0) ELSE P("floordiv", yval, c2e)
      bound == ConstIntBound(residue, c)
      less == IF c1val > 0 /\ c2val > 0 /\ c2val % c1val = 0
              THEN CanProveLess(P("floormod", yval, c2e), c1val, c)
              ELSE Pure(FALSE)
  IN IF ~b.ok THEN Skip
     ELSE IF c2val = 0 THEN Keep(ret)
     ELSE IF bound.max_value = bound.min_value
     THEN Direct(P("add", P("mul", b.x, P("floordiv", MakeConst(DType(b.c2), c1val), b.c2)),
                          P("add", y_div, IntImm(bound.max_value))), FALSE, zero.k)
     ELSE IF less.v
     THEN Direct(P("add", P("floordiv", b.x, MakeConst(DType(b.x), floordiv(c2val, c1val))),
                          y_div), FALSE, Plus(zero.k, less.k))
     ELSE Miss(Plus(zero.k, less.k))

\* VisitExpr_(const FloorDivNode*): the index rules
FloorDivRules(i, ret, c) ==
  IF ~IsIndexType(DType(ret)) THEN End
  ELSE
  CASE i = 1 ->
         TVM_TRY_REWRITE_IF(FloorDiv(FloorDiv(px, pc1), pc2),
             FloorDiv(px, Mul(pc1, pc2)),
             LAMBDA b: Pure(V(b, "c1") > 0 /\ V(b, "c2") > 0), ret)
    [] i = 2 ->
         TVM_TRY_REWRITE_IF(FloorDiv(Add(FloorDiv(px, pc1), pc2), pc3),
             FloorDiv(Add(px, Mul(pc1, pc2)), Mul(pc1, pc3)),
             LAMBDA b: Pure(V(b, "c1") > 0 /\ V(b, "c3") > 0), ret)
    [] i = 3 ->
         FloorDivResidue(ret, c)
    [] i = 4 ->
         TVM_TRY_REWRITE(FloorDiv(px, px),
             K(px, 1), ret)
    [] i = 5 ->
         TVM_TRY_REWRITE(PMatchesOneOf(<<FloorDiv(Mul(px, pc1), px), FloorDiv(Mul(pc1, px), px)>>),
             pc1, ret)
    [] i = 6 ->
         TVM_TRY_REWRITE(FloorDiv(Add(FloorMod(px, K(px, 2)), K(px, 1)), K(px, 2)),
             FloorMod(px, K(px, 2)), ret)
    [] i = 7 ->
         TVM_TRY_REWRITE_IF(FloorDiv(Min(Mul(px, pc1), py), pc2),
             Min(Mul(px, FloorDiv(pc1, pc2)), FloorDiv(py, pc2)),
             LAMBDA b: Pure(V(b, "c2") > 0 /\ V(b, "c1") % V(b, "c2") = 0), ret)
    [] i = 8 ->
         TVM_TRY_REWRITE_IF(FloorDiv(Max(Mul(px, pc1), py), pc2),
             Max(Mul(px, FloorDiv(pc1, pc2)), FloorDiv(py, pc2)),
             LAMBDA b: Pure(V(b, "c2") > 0 /\ V(b, "c1") % V(b, "c2") = 0), ret)
    [] i = 9 ->
         TVM_TRY_REWRITE_IF(FloorDiv(Min(py, Mul(px, pc1)), pc2),
             Min(FloorDiv(py, pc2), Mul(px, FloorDiv(pc1, pc2))),
             LAMBDA b: Pure(V(b, "c2") > 0 /\ V(b, "c1") % V(b, "c2") = 0), ret)
    [] i = 10 ->
         TVM_TRY_REWRITE_IF(FloorDiv(Max(py, Mul(px, pc1)), pc2),
             Max(FloorDiv(py, pc2), Mul(px, FloorDiv(pc1, pc2))),
             LAMBDA b: Pure(V(b, "c2") > 0 /\ V(b, "c1") % V(b, "c2") = 0), ret)
    [] i = 11 ->
         TVM_TRY_REWRITE_IF(FloorDiv(Add(Add(Mul(px, pc1), py), pz), pc2),
             Add(Mul(px, FloorDiv(pc1, pc2)), FloorDiv(Add(py, pz), pc2)),
             LAMBDA b: Pure(V(b, "c2") > 0 /\ V(b, "c1") % V(b, "c2") = 0), ret)
    [] i = 12 ->
         TVM_TRY_REWRITE_IF(FloorDiv(Add(Add(Mul(px, pc1), py), pz), pc2),
             FloorDiv(px, FloorDiv(pc2, pc1)),
             LAMBDA b: AndThen(Pure(V(b, "c1") > 0 /\ V(b, "c2") > 0 /\ V(b, "c2") % V(b, "c1") = 0),
                 CanProveEqual(P("floordiv", P("add", b.y, b.z), b.c1), 0, c)), ret)
    [] i = 13 ->
         TVM_TRY_REWRITE_IF(PMatchesOneOf(<<FloorDiv(Add(Sub(Mul(px, pc1), py), pz), pc2), FloorDiv(Sub(Add(Mul(px, pc1), pz), py), pc2)>>),
             Add(Mul(px, FloorDiv(pc1, pc2)), FloorDiv(Sub(pz, py), pc2)),
             LAMBDA b: Pure(V(b, "c2") > 0 /\ V(b, "c1") % V(b, "c2") = 0), ret)
    [] i = 14 ->
         TVM_TRY_REWRITE_IF(FloorDiv(Add(Add(py, Mul(px, pc1)), pz), pc2),
             Add(Mul(px, FloorDiv(pc1, pc2)), FloorDiv(Add(py, pz), pc2)),
             LAMBDA b: Pure(V(b, "c2") > 0 /\ V(b, "c1") % V(b, "c2") = 0), ret)
    [] i = 15 ->
         TVM_TRY_REWRITE_IF(FloorDiv(Add(px, pc1), pc2),
             Add(FloorDiv(px, pc2), FloorDiv(pc1, pc2)),
             LAMBDA b: Pure(V(b, "c2") > 0 /\ V(b, "c1") % V(b, "c2") = 0), ret)
    [] i = 16 ->
         TVM_TRY_REWRITE_IF(FloorDiv(Mul(px, pc1), Mul(px, pc2)),
             FloorDiv(pc1, pc2),
             LAMBDA b: Pure(V(b, "c2") > 0), ret)
    [] i = 17 ->
         TVM_TRY_REWRITE_IF(PMatchesOneOf(<<FloorDiv(Add(px, py), px), FloorDiv(Add(py, px), px)>>),
             Add(FloorDiv(py, px), K(py, 1)),
             LAMBDA b: CanProveGreaterEqual(b.x, 0, c), ret)
    [] i = 18 ->
         TVM_TRY_REWRITE_IF(PMatchesOneOf(<<FloorDiv(Add(Add(px, py), pz), px), FloorDiv(Add(Add(py, px), pz), px), FloorDiv(Add(py, Add(pz, px)), px), FloorDiv(Add(py, Add(px, pz)), px)>>),
             Add(FloorDiv(Add(py, pz), px), K(py, 1)),
             LAMBDA b: CanProveGreaterEqual(b.x, 0, c), ret)
    [] i = 19 ->
         TVM_TRY_REWRITE_IF(PMatchesOneOf(<<FloorDiv(Mul(px, py), py), FloorDiv(Mul(py, px), py)>>),
             px,
             LAMBDA b: CanProveGreaterEqual(b.y, 0, c), ret)
    [] i = 20 ->
         TVM_TRY_REWRITE_IF(PMatchesOneOf(<<FloorDiv(Add(Mul(px, pz), py), pz), FloorDiv(Add(Mul(pz, px), py), pz)>>),
             Add(px, FloorDiv(py, pz)),
             LAMBDA b: CanProveGreaterEqual(b.z, 0, c), ret)
    [] i = 21 ->
         TVM_TRY_REWRITE_IF(PMatchesOneOf(<<FloorDiv(Add(py, Mul(px, pz)), pz), FloorDiv(Add(py, Mul(pz, px)), pz)>>),
             Add(FloorDiv(py, pz), px),
             LAMBDA b: CanProveGreaterEqual(b.z, 0, c), ret)
    [] i = 22 ->
         TVM_TRY_REWRITE_IF(FloorDiv(Add(Mul(Mul(px, pz), pc1), py), Mul(pz, pc1)),
             Add(px, FloorDiv(py, Mul(pz, pc1))),
             LAMBDA b: CanProveGreaterEqual(P("mul", b.z, b.c1), 0, c), ret)
    [] i = 23 ->
         TVM_TRY_REWRITE_IF(FloorDiv(Sub(px, FloorMod(px, pc1)), pc1),
             FloorDiv(px, pc1),
             LAMBDA b: Pure(V(b, "c1") # 0), ret)
    [] i = 24 ->
         TVM_TRY_REWRITE_IF(FloorDiv(px, py),
             K(px, 0),
             LAMBDA b: AndThen(Pure(ContainsVscaleCall(b.y)),
                 AndThen(CanProveGreaterEqual(b.x, 0, c),
                 AndThen(CanProveGreaterEqual(b.y, 0, c),
                 CanProve(P("lt", b.x, b.y), c)))), ret)
    [] OTHER -> End

\* VisitExpr_(const FloorModNode*): the index rules
\* a FloorMod visitor whose index rules were left out
NoFloorModRules(i, ret, c) == End

FloorModRules(i, ret, c) ==
  IF ~IsIndexType(DType(ret)) THEN End
  ELSE
  CASE i = 1 ->
         TVM_TRY_REWRITE_IF(FloorMod(Mul(px, pc1), pc2),
             FloorMod(Mul(px, FloorMod(pc1, pc2)), pc2),
             LAMBDA b: Pure(V(b, "c2") # 0), ret)
    [] i = 2 ->
         TVM_TRY_REWRITE_IF(FloorMod(Add(Mul(px, pc1), py), pc2),
             Add(Mul(FloorMod(px, FloorDiv(pc2, pc1)), pc1), py),
             LAMBDA b: AndThen(Pure(V(b, "c1") > 0 /\ V(b, "c2") > 0 /\ V(b, "c2") % V(b, "c1") = 0),
                 CanProveEqual(P("floordiv", b.y, b.c1), 0, c)), ret)
    [] i = 3 ->
         TVM_TRY_REWRITE_IF(FloorMod(Add(Mul(px, pc1), py), pc2),
             FloorMod(Add(Mul(px, FloorMod(pc1, pc2)), py), pc2),
             LAMBDA b: Pure(V(b, "c2") > 0), ret)
    [] i = 4 ->
         TVM_TRY_REWRITE_IF(FloorMod(Add(px, pc1), pc2),
             FloorMod(Add(px, FloorMod(pc1, pc2)), pc2),
             LAMBDA b: Pure(V(b, "c2") > 0 /\ (V(b, "c1") >= V(b, "c2") \/ V(b, "c1") < 0)), ret)
    [] i = 5 ->
         TVM_TRY_REWRITE_IF(FloorMod(Add(px, Mul(py, pc1)), pc2),
             FloorMod(Add(px, Mul(py, FloorMod(pc1, pc2))), pc2),
             LAMBDA b: Pure(V(b, "c2") > 0), ret)
    [] i = 6 ->
         TVM_TRY_REWRITE_IF(FloorMod(Mul(px, pc1), Mul(px, pc2)),
             Mul(px, FloorMod(pc1, pc2)),
             LAMBDA b: Pure(V(b, "c2") # 0), ret)
    [] i = 7 ->
         TVM_TRY_REWRITE(PMatchesOneOf(<<FloorMod(Mul(px, py), py), FloorMod(Mul(py, px), py)>>),
             K(py, 0), ret)
    [] i = 8 ->
         TVM_TRY_REWRITE_IF(PMatchesOneOf(<<FloorMod(Add(px, FloorMod(pz, py)), py), FloorMod(Add(FloorMod(pz, py), px), py)>>),
             K(px, 0),
             LAMBDA b: CanProveEqual(P("floormod", P("add", b.x, b.z), b.y), 0, c), ret)
    [] i = 9 ->
         TVM_TRY_REWRITE_IF(PMatchesOneOf(<<FloorMod(Sub(px, FloorMod(px, pz)), py), FloorMod(Sub(FloorMod(px, pz), px), py)>>),
             K(px, 0),
             LAMBDA b: OrElse(CanProveEqual(P("sub", b.y, b.z), 0, c),
                                CanProveEqual(P("add", b.y, b.z), 0, c)), ret)
    [] i = 10 ->
         TVM_TRY_REWRITE_IF(FloorMod(Add(Mul(Mul(px, pz), pc1), py), Mul(pz, pc1)),
             FloorMod(py, Mul(pz, pc1)),
             LAMBDA b: CanProveGreaterEqual(P("mul", b.z, b.c1), 0, c), ret)
    [] i = 11 ->
         TVM_TRY_REWRITE_IF(FloorMod(px, py),
             px,
             LAMBDA b: AndThen(Pure(ContainsVscaleCall(b.y)),
                 AndThen(CanProveGreaterEqual(b.x, 0, c),
                 AndThen(CanProveGreaterEqual(b.y, 0, c),
                 CanProve(P("lt", b.x, b.y), c)))), ret)
    [] i = 12 ->
         LET b == Match(FloorMod(px, pc1), ret)
           c1val == V(b, "c1")
           mod == ModularSet(b.x, c)
           bound == ConstIntBound(b.x, c)
       IN IF ~(b.ok /\ c1val > 0) THEN Skip
          ELSE IF mod.coeff % c1val = 0
          THEN Direct(P("floormod", MakeConst(DType(b.c1), mod.base), b.c1), FALSE, Zero)
          ELSE IF bound.min_value >= 0 /\ bound.max_value < c1val
          THEN Direct(b.x, FALSE, Zero)
          ELSE Skip
    [] OTHER -> End

\* VisitExpr_(const MinNode*): the index rules
MinRules(i, ret, c) ==
  IF ~IsIndexType(DType(ret)) THEN End
  ELSE
  CASE i = 1 ->
         TVM_TRY_REWRITE(Min(px, px),
             px, ret)
    [] i = 2 ->
         LET a_bound == ConstIntBound(A(ret), c)
           b_bound == ConstIntBound(B(ret), c)
       IN IF a_bound.max_value <= b_bound.min_value THEN Direct(A(ret), FALSE, Zero)
          ELSE IF b_bound.max_value <= a_bound.min_value THEN Direct(B(ret), FALSE, Zero)
          ELSE Skip
    [] i = 3 ->
         LET b == Match(Min(Add(px, pc1), Add(px, pc2)), ret)
       IN IF ~b.ok THEN Skip
          ELSE IF V(b, "c1") < V(b, "c2") THEN Direct(Eval(Add(px, pc1), b), FALSE, Zero)
          ELSE Direct(Eval(Add(px, pc2), b), FALSE, Zero)
    [] i = 4 ->
         LET b == Match(PMatchesOneOf(<<Min(Add(px, pc1), px), Min(px, Add(px, pc1))>>), ret)
       IN IF ~b.ok THEN Skip
          ELSE IF V(b, "c1") < 0 THEN Direct(Eval(Add(px, pc1), b), FALSE, Zero)
          ELSE Direct(Eval(px, b), FALSE, Zero)
    [] i = 5 ->
         LET b == Match(Min(Sub(pc1, px), Sub(pc2, px)), ret)
       IN IF ~b.ok THEN Skip
          ELSE IF V(b, "c1") < V(b, "c2") THEN Direct(Eval(Sub(pc1, px), b), FALSE, Zero)
          ELSE Direct(Eval(Sub(pc2, px), b), FALSE, Zero)
    [] i = 6 ->
         TVM_TRY_REWRITE_IF(PMatchesOneOf(<<Min(Mul(Div(Add(px, pc1), pc2), pc2), px), Min(px, Mul(Div(Add(px, pc1), pc2), pc2)), Min(Mul(FloorDiv(Add(px, pc1), pc2), pc2), px), Min(px, Mul(FloorDiv(Add(px, pc1), pc2), pc2))>>),
             px,
             LAMBDA b: Pure(V(b, "c2") > 0 /\ V(b, "c1") + 1 = V(b, "c2")), ret)
    [] i = 7 ->
         TVM_TRY_REWRITE_IF(PMatchesOneOf(<<Min(Mul(Div(Add(px, pc1), pc2), pc2), Max(px, pc2)), Min(Max(px, pc2), Mul(Div(Add(px, pc1), pc2), pc2)), Min(Mul(FloorDiv(Add(px, pc1), pc2), pc2), Max(px, pc2)), Min(Max(px, pc2), Mul(FloorDiv(Add(px, pc1), pc2), pc2))>>),
             Max(px, pc2),
             LAMBDA b: AndThen(Pure(V(b, "c2") > 0 /\ V(b, "c1") + 1 = V(b, "c2")),
                 CanProveGreaterEqual(b.x, 1, c)), ret)
    [] i = 8 ->
         TVM_TRY_REWRITE_IF(PMatchesOneOf(<<Min(px, Mul(FloorDiv(px, pc2), pc2)), Min(Mul(FloorDiv(px, pc2), pc2), px)>>),
             Mul(FloorDiv(px, pc2), pc2),
             LAMBDA b: Pure(V(b, "c2") > 0), ret)
    [] i = 9 ->
         TVM_TRY_REWRITE(PMatchesOneOf(<<Min(Max(px, py), Min(px, py)), Min(Max(px, py), Min(py, px)), Min(Min(px, py), Max(px, py)), Min(Min(px, py), Max(py, px)), Min(Min(px, py), px), Min(Min(px, py), py), Min(px, Min(px, py)), Min(py, Min(px, py))>>),
             Min(px, py), ret)
    [] i = 10 ->
         TVM_TRY_REWRITE(PMatchesOneOf(<<Min(Max(px, py), px), Min(Max(py, px), px), Min(px, Max(px, py)), Min(px, Max(py, px))>>),
             px, ret)
    [] i = 11 ->
         TVM_TRY_REWRITE(Min(Min(Min(px, py), pz), py),
             Min(Min(px, py), pz), ret)
    [] i = 12 ->
         TVM_TRY_REWRITE(Min(Min(Min(Min(px, py), pz), ps1), py),
             Min(Min(Min(px, py), pz), ps1), ret)
    [] i = 13 ->
         TVM_TRY_REWRITE(Min(Min(Min(Min(Min(px, py), pz), ps1), ps2), py),
             Min(Min(Min(Min(px, py), pz), ps1), ps2), ret)
    [] i = 14 ->
         TVM_TRY_REWRITE(PMatchesOneOf(<<Min(Max(px, py), Max(px, pz)), Min(Max(px, py), Max(pz, px)), Min(Max(py, px), Max(px, pz)), Min(Max(py, px), Max(pz, px))>>),
             Max(Min(py, pz), px), ret)
    [] i = 15 ->
         TVM_TRY_REWRITE(PMatchesOneOf(<<Min(Min(px, py), Min(px, pz)), Min(Min(px, py), Min(pz, px)), Min(Min(py, px), Min(px, pz)), Min(Min(py, px), Min(pz, px))>>),
             Min(Min(py, pz), px), ret)
    [] i = 16 ->
         TVM_TRY_REWRITE(PMatchesOneOf(<<Min(Add(py, px), Add(pz, px)), Min(Add(py, px), Add(px, pz)), Min(Add(px, py), Add(px, pz)), Min(Add(px, py), Add(pz, px))>>),
             Add(Min(py, pz), px), ret)
    [] i = 17 ->
         TVM_TRY_REWRITE(Min(Sub(py, px), Sub(pz, px)),
             Sub(Min(py, pz), px), ret)
    [] i = 18 ->
         TVM_TRY_REWRITE(Min(Sub(px, py), Sub(px, pz)),
             Sub(px, Max(py, pz)), ret)
    [] i = 19 ->
         TVM_TRY_REWRITE(Min(Min(px, pc1), pc2),
             Min(px, Min(pc1, pc2)), ret)
    [] i = 20 ->
         LET b == Match(Min(Div(px, pc1), Div(py, pc1)), ret)
       IN IF ~b.ok THEN Skip
          ELSE IF V(b, "c1") > 0 THEN Direct(Eval(Div(Min(px, py), pc1), b), FALSE, Zero)
          ELSE Direct(Eval(Div(Max(px, py), pc1), b), FALSE, Zero)
    [] i = 21 ->
         LET b == Match(Min(FloorDiv(px, pc1), FloorDiv(py, pc1)), ret)
       IN IF ~b.ok THEN Skip
          ELSE IF V(b, "c1") > 0 THEN Direct(Eval(FloorDiv(Min(px, py), pc1), b), FALSE, Zero)
          ELSE Direct(Eval(FloorDiv(Max(px, py), pc1), b), FALSE, Zero)
    [] i = 22 ->
         LET b == Match(Min(Mul(px, pc1), Mul(py, pc1)), ret)
       IN IF ~b.ok THEN Skip
          ELSE IF V(b, "c1") > 0 THEN Direct(Eval(Mul(Min(px, py), pc1), b), FALSE, Zero)
          ELSE Direct(Eval(Mul(Max(px, py), pc1), b), FALSE, Zero)
    [] i = 23 ->
         LET b == Match(Min(Mul(px, pc1), pc2), ret)
           c1val == V(b, "c1")
           c2val == V(b, "c2")
       IN IF ~b.ok THEN Skip
          ELSE IF c1val = 0 THEN Direct(IF c2val < 0 THEN b.c2 ELSE b.c1, FALSE, Zero)
          ELSE IF c2val % c1val # 0 THEN Skip
          ELSE IF c1val > 0
          THEN Direct(Eval(Mul(Min(px, K(px, truncdiv(c2val, c1val))), K(px, c1val)), b),
                      FALSE, Zero)
          ELSE Direct(Eval(Mul(Max(px, K(px, truncdiv(c2val, c1val))), K(px, c1val)), b),
                      FALSE, Zero)
    [] i = 24 ->
         TVM_TRY_RECURSIVE_REWRITE(Min(Min(px, pc1), py),
             Min(Min(px, py), pc1), ret)
    [] i = 25 ->
         TVM_TRY_RECURSIVE_REWRITE_IF(Min(Sub(pc1, px), pc2),
             Sub(pc1, Max(px, Sub(pc1, pc2))),
             LAMBDA b: Pure(V(b, "c2") # 0), ret)
    [] OTHER -> End

\* VisitExpr_(const MaxNode*): the index rules
MaxRules(i, ret, c) ==
  IF ~IsIndexType(DType(ret)) THEN End
  ELSE
  CASE i = 1 ->
         TVM_TRY_REWRITE(Max(px, px),
             px, ret)
    [] i = 2 ->
         LET a_bound == ConstIntBound(A(ret), c)
           b_bound == ConstIntBound(B(ret), c)
       IN IF a_bound.min_value >= b_bound.max_value THEN Direct(A(ret), FALSE, Zero)
          ELSE IF b_bound.min_value >= a_bound.max_value THEN Direct(B(ret), FALSE, Zero)
          ELSE Skip
    [] i = 3 ->
         LET b == Match(Max(Add(px, pc1), Add(px, pc2)), ret)
       IN IF ~b.ok THEN Skip
          ELSE IF V(b, "c1") > V(b, "c2") THEN Direct(Eval(Add(px, pc1), b), FALSE, Zero)
          ELSE Direct(Eval(Add(px, pc2), b), FALSE, Zero)
    [] i = 4 ->
         LET b == Match(PMatchesOneOf(<<Max(Add(px, pc1), px), Max(px, Add(px, pc1))>>), ret)
       IN IF ~b.ok THEN Skip
          ELSE IF V(b, "c1") > 0 THEN Direct(Eval(Add(px, pc1), b), FALSE, Zero)
          ELSE Direct(Eval(px, b), FALSE, Zero)
    [] i = 5 ->
         LET b == Match(Max(Sub(pc1, px), Sub(pc2, px)), ret)
       IN IF ~b.ok THEN Skip
          ELSE IF V(b, "c1") > V(b, "c2") THEN Direct(Eval(Sub(pc1, px), b), FALSE, Zero)
          ELSE Direct(Eval(Sub(pc2, px), b), FALSE, Zero)
    [] i = 6 ->
         TVM_TRY_REWRITE_IF(PMatchesOneOf(<<Max(Mul(Div(Add(px, pc1), pc2), pc2), px), Max(px, Mul(Div(Add(px, pc1), pc2), pc2))>>),
             Mul(Div(Add(px, pc1), pc2), pc2),
             LAMBDA b: Pure(V(b, "c2") > 0 /\ V(b, "c1") + 1 = V(b, "c2")), ret)
    [] i = 7 ->
         TVM_TRY_REWRITE_IF(PMatchesOneOf(<<Max(Mul(FloorDiv(Add(px, pc1), pc2), pc2), px), Max(px, Mul(FloorDiv(Add(px, pc1), pc2), pc2))>>),
             Mul(FloorDiv(Add(px, pc1), pc2), pc2),
             LAMBDA b: Pure(V(b, "c2") > 0 /\ V(b, "c1") + 1 = V(b, "c2")), ret)
    [] i = 8 ->
         TVM_TRY_REWRITE_IF(PMatchesOneOf(<<Max(Mul(FloorDiv(px, pc2), pc2), px), Max(px, Mul(FloorDiv(px, pc2), pc2))>>),
             px,
             LAMBDA b: Pure(V(b, "c2") > 0), ret)
    [] i = 9 ->
         TVM_TRY_REWRITE(PMatchesOneOf(<<Max(Min(px, py), px), Max(Min(py, px), px), Max(px, Min(px, py)), Max(px, Min(py, px))>>),
             px, ret)
    [] i = 10 ->
         TVM_TRY_REWRITE(PMatchesOneOf(<<Max(Min(px, py), Max(px, py)), Max(Min(px, py), Max(py, px)), Max(Max(px, py), Min(px, py)), Max(Max(px, py), Min(py, px)), Max(Max(px, py), px), Max(Max(px, py), py), Max(px, Max(px, py)), Max(py, Max(px, py))>>),
             Max(px, py), ret)
    [] i = 11 ->
         TVM_TRY_REWRITE(Max(Max(Max(px, py), pz), py),
             Max(Max(px, py), pz), ret)
    [] i = 12 ->
         TVM_TRY_REWRITE(Max(Max(Max(Max(px, py), pz), ps1), py),
             Max(Max(Max(px, py), pz), ps1), ret)
    [] i = 13 ->
         TVM_TRY_REWRITE(Max(Max(Max(Max(Max(px, py), pz), ps1), ps2), py),
             Max(Max(Max(Max(px, py), pz), ps1), ps2), ret)
    [] i = 14 ->
         TVM_TRY_REWRITE(PMatchesOneOf(<<Max(Max(px, py), Max(px, pz)), Max(Max(px, py), Max(pz, px)), Max(Max(py, px), Max(px, pz)), Max(Max(py, px), Max(pz, px))>>),
             Max(Max(py, pz), px), ret)
    [] i = 15 ->
         TVM_TRY_REWRITE(PMatchesOneOf(<<Max(Min(px, py), Min(px, pz)), Max(Min(px, py), Min(pz, px)), Max(Min(py, px), Min(px, pz)), Max(Min(py, px), Min(pz, px))>>),
             Min(Max(py, pz), px), ret)
    [] i = 16 ->
         TVM_TRY_REWRITE(PMatchesOneOf(<<Max(Add(py, px), Add(pz, px)), Max(Add(py, px), Add(px, pz)), Max(Add(px, py), Add(px, pz)), Max(Add(px, py), Add(pz, px))>>),
             Add(Max(py, pz), px), ret)
    [] i = 17 ->
         TVM_TRY_REWRITE(Max(Sub(py, px), Sub(pz, px)),
             Sub(Max(py, pz), px), ret)
    [] i = 18 ->
         TVM_TRY_REWRITE(Max(Sub(px, py), Sub(px, pz)),
             Sub(px, Min(py, pz)), ret)
    [] i = 19 ->
         TVM_TRY_REWRITE(Max(Max(px, pc1), pc2),
             Max(px, Max(pc1, pc2)), ret)
    [] i = 20 ->
         LET b == Match(Max(Div(px, pc1), Div(py, pc1)), ret)
       IN IF ~b.ok THEN Skip
          ELSE IF V(b, "c1") > 0 THEN Direct(Eval(Div(Max(px, py), pc1), b), FALSE, Zero)
          ELSE Direct(Eval(Div(Min(px, py), pc1), b), FALSE, Zero)
    [] i = 21 ->
         LET b == Match(Max(FloorDiv(px, pc1), FloorDiv(py, pc1)), ret)
       IN IF ~b.ok THEN Skip
          ELSE IF V(b, "c1") > 0 THEN Direct(Eval(FloorDiv(Max(px, py), pc1), b), FALSE, Zero)
          ELSE Direct(Eval(FloorDiv(Min(px, py), pc1), b), FALSE, Zero)
    [] i = 22 ->
         LET b == Match(Max(Mul(px, pc1), Mul(py, pc1)), ret)
       IN IF ~b.ok THEN Skip
          ELSE IF V(b, "c1") > 0 THEN Direct(Eval(Mul(Max(px, py), pc1), b), FALSE, Zero)
          ELSE Direct(Eval(Mul(Min(px, py), pc1), b), FALSE, Zero)
    [] i = 23 ->
         LET b == Match(Max(Mul(px, pc1), pc2), ret)
           c1val == V(b, "c1")
           c2val == V(b, "c2")
       IN IF ~b.ok THEN Skip
          ELSE IF c1val = 0 THEN Direct(IF c2val > 0 THEN b.c2 ELSE b.c1, FALSE, Zero)
          ELSE IF c2val % c1val # 0 THEN Skip
          ELSE IF c1val > 0
          THEN Direct(Eval(Mul(Max(px, K(px, truncdiv(c2val, c1val))), K(px, c1val)), b),
                      FALSE, Zero)
          ELSE Direct(Eval(Mul(Min(px, K(px, truncdiv(c2val, c1val))), K(px, c1val)), b),
                      FALSE, Zero)
    [] i = 24 ->
         TVM_TRY_RECURSIVE_REWRITE(Max(Max(px, pc1), py),
             Max(Max(px, py), pc1), ret)
    [] i = 25 ->
         TVM_TRY_RECURSIVE_REWRITE_IF(Max(Sub(pc1, px), pc2),
             Sub(pc1, Min(px, Sub(pc1, pc2))),
             LAMBDA b: Pure(V(b, "c2") # 0), ret)
    [] OTHER -> End

\* TryComparisonOfProductAndSum(x, y): (A+B)*C against (A*B)*D
negate(bound) == [min_value |-> -bound.max_value, max_value |-> -bound.min_value]
is_negative(bound) == bound.max_value < 0
is_positive(bound) == bound.min_value > 0
opt_special_case(diff) ==
  LET pA == <<"?", "x">>
      pB == <<"?", "y">>
      pC == <<"?", "z">>
      pD == <<"?", "s1">>
      m1 == MatchOneOf(<<Add(Mul(Add(pA, pB), pC), Mul(Mul(pA, pB), pD)),
                         Add(Mul(Add(pA, pB), pC), Mul(Mul(pB, pA), pD)),
                         Add(Mul(Mul(pA, pB), pD), Mul(Add(pA, pB), pC)),
                         Add(Mul(Mul(pB, pA), pD), Mul(Add(pA, pB), pC))>>, 1, diff)
      m2 == MatchOneOf(<<Add(Mul(Add(pA, pB), pC), Mul(pA, pB)),
                         Add(Mul(Add(pA, pB), pC), Mul(pB, pA)),
                         Add(Mul(pA, pB), Mul(Add(pA, pB), pC)),
                         Add(Mul(pB, pA), Mul(Add(pA, pB), pC))>>, 1, diff)
  IN IF m1.ok THEN <<m1.x, m1.y, m1.z, P("sub", ZeroWithTypeLike(m1.s1), m1.s1)>>
     ELSE IF m2.ok THEN <<m2.x, m2.y, m2.z, IntImm(-1)>>
     ELSE <<>>
\* a reciprocal term taken never to be positive
reciprocal_term_unproved(A_bound, B_bound, C_bound, D_bound) == FALSE
reciprocal_term_is_positive(A_bound, B_bound, C_bound, D_bound) ==
  IF D_bound.max_value = kPosInf THEN FALSE
  ELSE IF Wrap(MinI(A_bound.max_value, B_bound.max_value) * D_bound.max_value)
            <= C_bound.min_value THEN TRUE
  ELSE IF A_bound.max_value # kPosInf /\ B_bound.max_value # kPosInf
          /\ Wrap(Wrap(A_bound.max_value * B_bound.max_value) * D_bound.max_value)
               < Wrap(C_bound.min_value * Wrap(A_bound.max_value + B_bound.max_value))
  THEN TRUE
  ELSE FALSE
TryComparisonOfProductAndSumBody(x, y, c) ==
  IF kComparisonOfProductAndSum \notin c.ext THEN Pure(kUnknown)
  ELSE
    LET d == VisitExpr(P("sub", x, y), c)
        sc == opt_special_case(d.e)
        A0 == ConstIntBound(sc[1], c)
        B0 == ConstIntBound(sc[2], c)
        C0 == ConstIntBound(sc[3], c)
        D0 == ConstIntBound(sc[4], c)
        is_upper_bound == is_negative(D0)
        C1 == IF is_upper_bound THEN negate(C0) ELSE C0
        D_bound == IF is_upper_bound THEN negate(D0) ELSE D0
        flip == is_negative(C1)
        A_bound == IF flip THEN negate(A0) ELSE A0
        B_bound == IF flip THEN negate(B0) ELSE B0
        C_bound == IF flip THEN negate(C1) ELSE C1
        all_terms_positive == is_positive(A_bound) /\ is_positive(B_bound)
                              /\ is_positive(C_bound) /\ is_positive(D_bound)
    IN IF sc = <<>> THEN [v |-> kUnknown, k |-> d.k]
       ELSE IF ~all_terms_positive THEN [v |-> kUnknown, k |-> d.k]
       ELSE IF ~reciprocal_term_is_positive(A_bound, B_bound, C_bound, D_bound)
       THEN [v |-> kUnknown, k |-> d.k]
       ELSE IF is_upper_bound THEN [v |-> kLT, k |-> d.k]
       ELSE [v |-> kGT, k |-> d.k]

\* TryCompare(x, y): bounds, then the known inequalities, then the product
\* and sum comparison; stops as soon as the answer is EQ, LT or GT
TryCompareXYBody(x, y, c) ==
  LET r1 == TryCompareUsingConstIntBounds(x, y, c)
      o1 == kUnknown \cap r1.v
      o2 == o1 \cap TryCompareUsingKnownInequalities(x, y, c)
      r3 == TryComparisonOfProductAndSum(x, y, c)
  IN IF is_finished(o1) THEN [v |-> o1, k |-> r1.k, layers |-> <<"bounds">>]
     ELSE IF is_finished(o2) THEN [v |-> o2, k |-> r1.k, layers |-> <<"bounds", "known">>]
     ELSE [v |-> o2 \cap r3.v, k |-> Plus(r1.k, r3.k),
           layers |-> <<"bounds", "known", "product">>]

\* a table that reads a >= b as a < b in the NE visitor
ReduceUnswapped(kind, a, b, compared) ==
  CASE kind = "ne" /\ compared = kGE -> Bin("lt", a, b)
    [] kind \in {"eq", "ne"} /\ compared \in {kEQ, kLT, kGT, kNE} ->
         BoolImm((kind = "eq") = (compared = kEQ))
    [] OTHER -> NullOpt

\* what the visitors of EQ, NE, LT, LE make of kind(a, b) when TryCompare(a, b)
\* gives compared: a literal, a reduced comparison, or nothing (NullOpt)
Reduce(kind, a, b, compared) ==
  CASE kind = "eq" ->
         IF compared = kEQ THEN BoolImm(TRUE)
         ELSE IF compared = kNE \/ compared = kGT \/ compared = kLT THEN BoolImm(FALSE)
         ELSE NullOpt
    [] kind = "ne" ->
         IF compared = kNE \/ compared = kGT \/ compared = kLT THEN BoolImm(TRUE)
         ELSE IF compared = kEQ THEN BoolImm(FALSE)
         ELSE IF compared = kGE THEN Bin("lt", b, a)
         ELSE IF compared = kLE THEN Bin("lt", a, b)
         ELSE NullOpt
    [] kind = "lt" ->
         IF compared = kLT THEN BoolImm(TRUE)
         ELSE IF compared = kEQ \/ compared = kGT \/ compared = kGE THEN BoolImm(FALSE)
         ELSE NullOpt
    [] kind = "le" ->
         IF compared = kLE \/ compared = kLT \/ compared = kEQ THEN BoolImm(TRUE)
         ELSE IF compared = kGT THEN BoolImm(FALSE)
         ELSE IF compared = kNE THEN Bin("lt", a, b)
         ELSE IF compared = kGE THEN Bin("eq", a, b)
         ELSE NullOpt

\* ApplyRewriteRules(EQ ret)
EQRules(i, ret, c) ==
  IF IsIndexType(DType(A(ret))) THEN
  CASE i = 1 ->
         LET r == TryCompareXY(A(ret), B(ret), c)
             decided == Reduce("eq", A(ret), B(ret), r.v)
       IN IF decided # NullOpt THEN Direct(decided, FALSE, r.k)
          ELSE Miss(r.k)
    [] i = 2 ->
         TVM_TRY_REWRITE(EQ(pc1, px),
             EQ(px, pc1), ret)
    [] i = 3 ->
         TVM_TRY_REWRITE(EQ(Sub(px, pc1), pc2),
             EQ(px, Add(pc2, pc1)), ret)
    [] i = 4 ->
         TVM_TRY_REWRITE(EQ(Sub(pc1, px), pc2),
             EQ(px, Sub(pc1, pc2)), ret)
    [] i = 5 ->
         TVM_TRY_REWRITE(EQ(Add(px, pc1), pc2),
             EQ(px, Sub(pc2, pc1)), ret)
    [] i = 6 ->
         TVM_TRY_RECURSIVE_REWRITE(EQ(Mul(px, py), K(px, 0)),
             Or(EQ(px, K(px, 0)), EQ(py, K(py, 0))), ret)
    [] i = 7 ->
         TVM_TRY_REWRITE(EQ(px, px),
             BoolImm(TRUE), ret)
    [] OTHER -> End
  ELSE
  CASE i = 1 ->
         TVM_TRY_REWRITE_IF(EQ(px, px),
             BoolImm(TRUE),
             LAMBDA b: Pure(SideEffectIsPure(b.x)), ret)
    [] OTHER -> End

\* ExtractConstantOffset reporting the literal of x - c1 unsigned
ExtractConstantOffsetUnsigned(e) ==
  CASE Match(Add(px, pc1), e).ok -> [e |-> A(e), offset |-> LitNum(B(e))]
    [] Match(Sub(px, pc1), e).ok -> [e |-> A(e), offset |-> LitNum(B(e))]
    [] Match(Sub(pc1, px), e).ok -> [e |-> B(e), offset |-> LitNum(A(e))]
    [] OTHER -> [e |-> e, offset |-> 0]

\* ExtractConstantOffset(e): [e |-> the base, offset |-> the constant]
ExtractConstantOffsetBody(e) ==
  CASE Match(Add(px, pc1), e).ok -> [e |-> A(e), offset |-> LitNum(B(e))]
    [] Match(Sub(px, pc1), e).ok -> [e |-> A(e), offset |-> -LitNum(B(e))]
    [] Match(Sub(pc1, px), e).ok -> [e |-> B(e), offset |-> LitNum(A(e))]
    [] OTHER -> [e |-> e, offset |-> 0]

\* the merge_constants lambda of ApplyRewriteRules(LT ret); NullOpt is NullOpt
merge_constantsBody(ret) ==
  LET l == ExtractConstantOffset(A(ret))
      r == ExtractConstantOffset(B(ret))
      lhs == l.e
      rhs == r.e
      lhs_offset == l.offset
      rhs_offset == r.offset
      diff == Wrap(rhs_offset - lhs_offset)
  IN CASE lhs_offset = 0 /\ rhs_offset = 0 -> NullOpt
       [] diff = 0 -> P("lt", lhs, rhs)
       [] diff = 1 -> P("le", lhs, rhs)
       [] diff < 0 /\ rhs_offset # 0 ->
            P("lt", P("add", lhs, MakeConst(DType(lhs), Wrap(-diff))), rhs)
       [] diff > 0 /\ lhs_offset # 0 ->
            P("lt", lhs, P("add", rhs, MakeConst(DType(rhs), diff)))
       [] OTHER -> NullOpt

\* the common_factor lambda of ApplyRewriteRules(LT ret)
common_factorBody(ret, c) ==
  LET modular_a == ModularSet(A(ret), c)
      modular_b == ModularSet(B(ret), c)
      gcd_lhs == ZeroAwareGCD(modular_a.base, modular_a.coeff)
      gcd_rhs == ZeroAwareGCD(modular_b.base, modular_b.coeff)
  IN ZeroAwareGCD(gcd_lhs, gcd_rhs)

\* ApplyRewriteRules(LT ret)
LTRules(i, ret, c) ==
  IF ~IsIndexType(DType(A(ret))) THEN End
  ELSE
  CASE i = 1 ->
         LET r == TryCompareXY(A(ret), B(ret), c)
             decided == Reduce("lt", A(ret), B(ret), r.v)
       IN IF decided # NullOpt THEN Direct(decided, FALSE, r.k)
          ELSE Miss(r.k)
    [] i = 2 ->
         TVM_TRY_REWRITE(LT(Add(px, py), Add(px, pz)),
             LT(py, pz), ret)
    [] i = 3 ->
         TVM_TRY_REWRITE(LT(Add(px, py), Add(pz, px)),
             LT(py, pz), ret)
    [] i = 4 ->
         TVM_TRY_REWRITE(LT(Add(py, px), Add(px, pz)),
             LT(py, pz), ret)
    [] i = 5 ->
         TVM_TRY_REWRITE(LT(Add(py, px), Add(pz, px)),
             LT(py, pz), ret)
    [] i = 6 ->
         TVM_TRY_REWRITE(LT(Sub(py, px), Sub(pz, px)),
             LT(py, pz), ret)
    [] i = 7 ->
         TVM_TRY_REWRITE(LT(Sub(px, py), Sub(px, pz)),
             LT(pz, py), ret)
    [] i = 8 ->
         TVM_TRY_REWRITE(LT(px, Add(px, pz)),
             LT(K(pz, 0), pz), ret)
    [] i = 9 ->
         TVM_TRY_REWRITE(LT(px, Add(pz, px)),
             LT(K(pz, 0), pz), ret)
    [] i = 10 ->
         TVM_TRY_REWRITE(LT(px, Sub(px, pz)),
             LT(pz, K(pz, 0)), ret)
    [] i = 11 ->
         TVM_TRY_REWRITE_IF(LT(Mul(px, pc1), Mul(py, pc1)),
             LT(px, py),
             LAMBDA b: Pure(V(b, "c1") > 0), ret)
    [] i = 12 ->
         TVM_TRY_REWRITE_IF(LT(Mul(px, pc1), Mul(py, pc1)),
             LT(py, px),
             LAMBDA b: Pure(V(b, "c1") < 0), ret)
    [] i = 13 ->
         TVM_TRY_REWRITE_IF(LT(Mul(px, pc2), pc1),
             LT(px, Add(Div(Sub(pc1, K(pc1, 1)), pc2), K(pc1, 1))),
             LAMBDA b: Pure(V(b, "c1") > 0 /\ V(b, "c2") > 0), ret)
    [] i = 14 ->
         TVM_TRY_REWRITE_IF(LT(Mul(px, pc2), pc1),
             LT(px, Div(pc1, pc2)),
             LAMBDA b: Pure(V(b, "c1") <= 0 /\ V(b, "c2") > 0), ret)
    [] i = 15 ->
         TVM_TRY_REWRITE_IF(LT(Mul(px, pc2), pc1),
             LT(Sub(Div(Sub(pc1, K(pc1, 1)), pc2), K(pc1, 1)), px),
             LAMBDA b: Pure(V(b, "c1") > 0 /\ V(b, "c2") < 0), ret)
    [] i = 16 ->
         TVM_TRY_REWRITE_IF(LT(Mul(px, pc2), pc1),
             LT(Div(pc1, pc2), px),
             LAMBDA b: Pure(V(b, "c1") <= 0 /\ V(b, "c2") < 0), ret)
    [] i = 17 ->
         TVM_TRY_REWRITE_IF(LT(pc1, Mul(px, pc2)),
             LT(Sub(Div(Add(pc1, K(pc1, 1)), pc2), K(pc1, 1)), px),
             LAMBDA b: Pure(V(b, "c1") < 0 /\ V(b, "c2") > 0), ret)
    [] i = 18 ->
         TVM_TRY_REWRITE_IF(LT(pc1, Mul(px, pc2)),
             LT(Div(pc1, pc2), px),
             LAMBDA b: Pure(V(b, "c1") >= 0 /\ V(b, "c2") > 0), ret)
    [] i = 19 ->
         TVM_TRY_REWRITE_IF(LT(pc1, Mul(px, pc2)),
             LT(px, Add(Div(Add(pc1, K(pc1, 1)), pc2), K(pc1, 1))),
             LAMBDA b: Pure(V(b, "c1") < 0 /\ V(b, "c2") < 0), ret)
    [] i = 20 ->
         TVM_TRY_REWRITE_IF(LT(pc1, Mul(px, pc2)),
             LT(px, Div(pc1, pc2)),
             LAMBDA b: Pure(V(b, "c1") >= 0 /\ V(b, "c2") < 0), ret)
    [] i = 21 ->
         TVM_TRY_REWRITE_IF(LT(Div(px, pc1), pc2),
             LT(px, Mul(pc1, pc2)),
             LAMBDA b: Pure(V(b, "c1") > 0 /\ V(b, "c2") > 0), ret)
    [] i = 22 ->
         TVM_TRY_REWRITE_IF(LT(Div(px, pc1), pc2),
             LT(px, Add(Mul(pc1, Sub(pc2, K(pc2, 1))), K(pc1, 1))),
             LAMBDA b: Pure(V(b, "c1") > 0 /\ V(b, "c2") <= 0), ret)
    [] i = 23 ->
         TVM_TRY_REWRITE_IF(LT(pc1, Div(px, pc2)),
             LT(Sub(Mul(Add(pc1, K(pc1, 1)), pc2), K(pc1, 1)), px),
             LAMBDA b: Pure(V(b, "c1") >= 0 /\ V(b, "c2") > 0), ret)
    [] i = 24 ->
         TVM_TRY_REWRITE_IF(LT(pc1, Div(px, pc2)),
             LT(Mul(pc1, pc2), px),
             LAMBDA b: Pure(V(b, "c1") < 0 /\ V(b, "c2") > 0), ret)
    [] i = 25 ->
         TVM_TRY_REWRITE_IF(LT(Mul(Div(px, pc1), pc1), px),
             LT(K(px, 0), Mod(px, pc1)),
             LAMBDA b: Pure(V(b, "c1") > 0), ret)
    [] i = 26 ->
         TVM_TRY_REWRITE_IF(LT(Mul(Div(px, pc1), pc1), Add(px, py)),
             LT(K(px, 0), Add(Mod(px, pc1), py)),
             LAMBDA b: Pure(V(b, "c1") > 0), ret)
    [] i = 27 ->
         TVM_TRY_REWRITE_IF(LT(Mul(Div(px, pc1), pc1), Sub(px, py)),
             LT(py, Mod(px, pc1)),
             LAMBDA b: Pure(V(b, "c1") > 0), ret)
    [] i = 28 ->
         TVM_TRY_REWRITE_IF(LT(Mul(Div(Add(px, pc2), pc1), pc1), px),
             LT(pc2, Mod(Add(px, pc2), pc1)),
             LAMBDA b: Pure(V(b, "c1") > 0), ret)
    [] i = 29 ->
         TVM_TRY_REWRITE_IF(LT(Mul(Div(Add(px, pc2), pc1), pc1), Add(px, py)),
             LT(pc2, Add(Mod(Add(px, pc2), pc1), py)),
             LAMBDA b: Pure(V(b, "c1") > 0), ret)
    [] i = 30 ->
         TVM_TRY_REWRITE_IF(LT(Mul(Div(Add(px, pc2), pc1), pc1), Sub(px, py)),
             LT(py, Add(Mod(Add(px, pc2), pc1), Sub(K(pc2, 0), pc2))),
             LAMBDA b: Pure(V(b, "c1") > 0), ret)
    [] i = 31 ->
         TVM_TRY_REWRITE_IF(LT(FloorDiv(px, pc1), pc2),
             LT(px, Mul(pc1, pc2)),
             LAMBDA b: Pure(V(b, "c1") > 0), ret)
    [] i = 32 ->
         TVM_TRY_REWRITE_IF(LT(pc1, FloorDiv(px, pc2)),
             LT(Sub(Mul(Add(pc1, K(pc1, 1)), pc2), K(pc1, 1)), px),
             LAMBDA b: Pure(V(b, "c2") > 0), ret)
    [] i = 33 ->
         TVM_TRY_REWRITE_IF(LT(Mul(FloorDiv(px, pc1), pc1), px),
             LT(K(px, 0), FloorMod(px, pc1)),
             LAMBDA b: Pure(V(b, "c1") > 0), ret)
    [] i = 34 ->
         TVM_TRY_REWRITE_IF(LT(Mul(FloorDiv(px, pc1), pc1), Add(px, py)),
             LT(K(px, 0), Add(FloorMod(px, pc1), py)),
             LAMBDA b: Pure(V(b, "c1") > 0), ret)
    [] i = 35 ->
         TVM_TRY_REWRITE_IF(LT(Mul(FloorDiv(px, pc1), pc1), Sub(px, py)),
             LT(py, FloorMod(px, pc1)),
             LAMBDA b: Pure(V(b, "c1") > 0), ret)
    [] i = 36 ->
         TVM_TRY_REWRITE_IF(LT(Mul(FloorDiv(Add(px, pc2), pc1), pc1), px),
             LT(pc2, FloorMod(Add(px, pc2), pc1)),
             LAMBDA b: Pure(V(b, "c1") > 0), ret)
    [] i = 37 ->
         TVM_TRY_REWRITE_IF(LT(Mul(FloorDiv(Add(px, pc2), pc1), pc1), Add(px, py)),
             LT(pc2, Add(FloorMod(Add(px, pc2), pc1), py)),
             LAMBDA b: Pure(V(b, "c1") > 0), ret)
    [] i = 38 ->
         TVM_TRY_REWRITE_IF(LT(Mul(FloorDiv(Add(px, pc2), pc1), pc1), Sub(px, py)),
             LT(py, Add(FloorMod(Add(px, pc2), pc1), Sub(K(pc2, 0), pc2))),
             LAMBDA b: Pure(V(b, "c1") > 0), ret)
    [] i = 39 ->
         TVM_TRY_RECURSIVE_REWRITE(LT(Min(px, py), pz),
             Or(LT(px, pz), LT(py, pz)), ret)
    [] i = 40 ->
         TVM_TRY_RECURSIVE_REWRITE(LT(Max(px, py), pz),
             And(LT(px, pz), LT(py, pz)), ret)
    [] i = 41 ->
         TVM_TRY_RECURSIVE_REWRITE(LT(pz, Min(px, py)),
             And(LT(pz, px), LT(pz, py)), ret)
    [] i = 42 ->
         TVM_TRY_RECURSIVE_REWRITE(LT(pz, Max(px, py)),
             Or(LT(pz, px), LT(pz, py)), ret)
    [] i = 43 ->
         TVM_TRY_RECURSIVE_REWRITE(PMatchesOneOf(<<LT(pc1, Add(px, pc2)), LT(Sub(pc1, px), pc2)>>),
             LT(Sub(pc1, pc2), px), ret)
    [] i = 44 ->
         TVM_TRY_RECURSIVE_REWRITE(PMatchesOneOf(<<LT(pc1, Sub(pc2, px)), LT(Add(px, pc1), pc2)>>),
             LT(px, Sub(pc2, pc1)), ret)
    [] i = 45 ->
         TVM_TRY_RECURSIVE_REWRITE(LT(pc1, Sub(px, pc2)),
             LT(Add(pc1, pc2), px), ret)
    [] i = 46 ->
         TVM_TRY_RECURSIVE_REWRITE(LT(Sub(px, pc2), pc1),
             LT(px, Add(pc1, pc2)), ret)
    [] i = 47 ->
         TVM_TRY_RECURSIVE_REWRITE(LT(px, Sub(pc1, py)),
             LT(Add(px, py), pc1), ret)
    [] i = 48 ->
         TVM_TRY_RECURSIVE_REWRITE(LT(Sub(pc1, py), px),
             LT(pc1, Add(px, py)), ret)
    [] i = 49 ->
         TVM_TRY_RECURSIVE_REWRITE(LT(px, Add(pc1, py)),
             LT(Sub(px, py), pc1), ret)
    [] i = 50 ->
         TVM_TRY_RECURSIVE_REWRITE(LT(Add(pc1, py), px),
             LT(pc1, Sub(px, py)), ret)
    [] i = 51 ->
         LET m == merge_constants(ret)
       IN IF m # NullOpt THEN Direct(m, TRUE, Zero) ELSE Skip
    [] i = 52 ->
         IF common_factor(ret, c) > 1
       THEN Direct(P("lt", P("floordiv", A(ret), MakeConst(DType(A(ret)), common_factor(ret, c))),
                           P("floordiv", B(ret), MakeConst(DType(B(ret)), common_factor(ret, c)))),
                   TRUE, Zero)
       ELSE Skip
    [] OTHER -> End

\* ApplyRewriteRules(Not ret)
NotRules(i, ret, c) ==
  CASE i = 1 ->
         TVM_TRY_REWRITE(Not(Not(px)),
             px, ret)
    [] i = 2 ->
         TVM_TRY_REWRITE(Not(LE(px, py)),
             LT(py, px), ret)
    [] i = 3 ->
         TVM_TRY_REWRITE(Not(GE(px, py)),
             LT(px, py), ret)
    [] i = 4 ->
         TVM_TRY_REWRITE(Not(LT(px, py)),
             LE(py, px), ret)
    [] i = 5 ->
         TVM_TRY_REWRITE(Not(GT(px, py)),
             LE(px, py), ret)
    [] i = 6 ->
         TVM_TRY_REWRITE(Not(EQ(px, py)),
             NE(px, py), ret)
    [] i = 7 ->
         TVM_TRY_REWRITE(Not(NE(px, py)),
             EQ(px, py), ret)
    [] i = 8 ->
         TVM_TRY_RECURSIVE_REWRITE(Not(Or(px, py)),
             And(Not(px), Not(py)), ret)
    [] i = 9 ->
         TVM_TRY_RECURSIVE_REWRITE(Not(And(px, py)),
             Or(Not(px), Not(py)), ret)
    [] OTHER -> End

\* VisitExpr_(const AndNode*): the rules
AndRules(i, ret, c) ==
  CASE i = 1 ->
         TVM_TRY_REWRITE(And(EQ(px, py), NE(px, py)),
             BoolImm(FALSE), ret)
    [] i = 2 ->
         TVM_TRY_REWRITE(And(NE(px, py), EQ(px, py)),
             BoolImm(FALSE), ret)
    [] i = 3 ->
         TVM_TRY_REWRITE(And(px, Not(px)),
             BoolImm(FALSE), ret)
    [] i = 4 ->
         TVM_TRY_REWRITE(And(LE(px, py), LT(py, px)),
             BoolImm(FALSE), ret)
    [] i = 5 ->
         TVM_TRY_REWRITE(And(LT(py, px), LE(px, py)),
             BoolImm(FALSE), ret)
    [] i = 6 ->
         TVM_TRY_REWRITE_IF(And(LT(px, pc1), LT(pc2, px)),
             BoolImm(FALSE),
             LAMBDA b: Pure(V(b, "c2") + 1 >= V(b, "c1")), ret)
    [] i = 7 ->
         TVM_TRY_REWRITE_IF(And(LT(pc2, px), LT(px, pc1)),
             BoolImm(FALSE),
             LAMBDA b: Pure(V(b, "c2") + 1 >= V(b, "c1")), ret)
    [] i = 8 ->
         TVM_TRY_REWRITE_IF(PMatchesOneOf(<<And(LT(px, pc1), LE(pc2, px)), And(LE(pc2, px), LT(px, pc1)), And(LE(px, pc1), LT(pc2, px)), And(LT(pc2, px), LE(px, pc1))>>),
             BoolImm(FALSE),
             LAMBDA b: Pure(V(b, "c2") >= V(b, "c1")), ret)
    [] i = 9 ->
         TVM_TRY_REWRITE_IF(PMatchesOneOf(<<And(LE(px, pc1), LE(pc2, px)), And(LE(pc2, px), LE(px, pc1))>>),
             BoolImm(FALSE),
             LAMBDA b: Pure(V(b, "c2") > V(b, "c1")), ret)
    [] i = 10 ->
         TVM_TRY_REWRITE(And(EQ(px, pc1), EQ(px, pc2)),
             And(EQ(px, pc1), EQ(pc1, pc2)), ret)
    [] i = 11 ->
         TVM_TRY_REWRITE(PMatchesOneOf(<<And(EQ(px, pc1), NE(px, pc2)), And(NE(px, pc2), EQ(px, pc1))>>),
             And(EQ(px, pc1), NE(pc1, pc2)), ret)
    [] i = 12 ->
         TVM_TRY_RECURSIVE_REWRITE(PMatchesOneOf(<<And(EQ(FloorDiv(px, pc2), pc1), EQ(FloorMod(px, pc2), pc3)), And(EQ(FloorMod(px, pc2), pc3), EQ(FloorDiv(px, pc2), pc1))>>),
             EQ(px, Add(Mul(pc1, pc2), pc3)), ret)
    [] i = 13 ->
         TVM_TRY_RECURSIVE_REWRITE_IF(PMatchesOneOf(<<And(LE(K(px, 0), Sub(px, Mul(py, pc1))), LT(Sub(px, Mul(py, pc1)), pc1)), And(LT(Sub(px, Mul(py, pc1)), pc1), LE(K(px, 0), Sub(px, Mul(py, pc1))))>>),
             EQ(py, FloorDiv(px, pc1)),
             LAMBDA b: Pure(V(b, "c1") > 0), ret)
    [] i = 14 ->
         TVM_TRY_RECURSIVE_REWRITE(PMatchesOneOf(<<And(LT(pc1, Sub(px, Mul(py, pc1))), LE(Sub(px, Mul(py, pc1)), K(px, 0))), And(LT(Sub(px, Mul(py, pc1)), pc1), LE(K(px, 0), Sub(px, Mul(py, pc1))))>>),
             EQ(py, FloorDiv(px, pc1)), ret)
    [] i = 15 ->
         TVM_TRY_RECURSIVE_REWRITE_IF(PMatchesOneOf(<<And(LE(K(px, 0), Add(px, Mul(py, pc2))), LT(Add(px, Mul(py, pc2)), pc1)), And(LT(Add(px, Mul(py, pc2)), pc1), LE(K(px, 0), Add(px, Mul(py, pc2))))>>),
             EQ(py, FloorDiv(px, pc1)),
             LAMBDA b: Pure(V(b, "c2") = -V(b, "c1")), ret)
    [] i = 16 ->
         TVM_TRY_RECURSIVE_REWRITE_IF(And(LT(px, pc1), LT(FloorMod(px, pc2), pc3)),
             And(LT(px, Add(Sub(pc1, pc2), pc3)), LT(FloorMod(px, pc2), pc3)),
             LAMBDA b: [v |-> CMod(V(b, "c1"), V(b, "c2")) = 0, k |-> DivisionBy(V(b, "c2"))], ret)
    [] i = 17 ->
         TVM_TRY_RECURSIVE_REWRITE_IF(And(LT(px, pc1), LT(FloorMod(px, pc2), pc3)),
             And(LT(px, Add(Sub(pc1, FloorMod(pc1, pc2)), pc3)), LT(FloorMod(px, pc2), pc3)),
             LAMBDA b: [v |-> CMod(CMod(V(b, "c1"), V(b, "c2")) + V(b, "c2"), V(b, "c2")) > V(b, "c3"), k |-> DivisionBy(V(b, "c2"))], ret)
    [] i = 18 ->
         TVM_TRY_RECURSIVE_REWRITE_IF(And(LE(px, pc1), LT(FloorMod(px, pc2), pc3)),
             And(LT(px, Add(Sub(Add(pc1, K(pc1, 1)), pc2), pc3)), LT(FloorMod(px, pc2), pc3)),
             LAMBDA b: [v |-> CMod(V(b, "c1") + 1, V(b, "c2")) = 0, k |-> DivisionBy(V(b, "c2"))], ret)
    [] i = 19 ->
         TVM_TRY_RECURSIVE_REWRITE_IF(And(LE(px, pc1), LT(FloorMod(px, pc2), pc3)),
             And(LT(px, Add(Sub(Add(pc1, K(pc1, 1)), FloorMod(pc1, pc2)), pc3)), LT(FloorMod(px, pc2), pc3)),
             LAMBDA b: [v |-> CMod(CMod(V(b, "c1") + 1, V(b, "c2")) + V(b, "c2"), V(b, "c2")) > V(b, "c3"), k |-> DivisionBy(V(b, "c2"))], ret)
    [] i = 20 ->
         TVM_TRY_RECURSIVE_REWRITE(PMatchesOneOf(<<And(EQ(FloorDiv(px, pc2), pc1), LT(FloorMod(px, pc2), pc3)), And(LT(FloorMod(px, pc2), pc3), EQ(FloorDiv(px, pc2), pc1))>>),
             And(LE(Mul(pc1, pc2), px), LT(px, Add(Mul(pc1, pc2), pc3))), ret)
    [] i = 21 ->
         TVM_TRY_RECURSIVE_REWRITE(PMatchesOneOf(<<And(EQ(FloorDiv(px, pc2), pc1), LE(FloorMod(px, pc2), pc3)), And(LE(FloorMod(px, pc2), pc3), EQ(FloorDiv(px, pc2), pc1))>>),
             And(LE(Mul(pc1, pc2), px), LE(px, Add(Mul(pc1, pc2), pc3))), ret)
    [] i = 22 ->
         TVM_TRY_RECURSIVE_REWRITE(PMatchesOneOf(<<And(EQ(FloorDiv(px, pc2), pc1), LE(pc3, FloorMod(px, pc2))), And(LE(pc3, FloorMod(px, pc2)), EQ(FloorDiv(px, pc2), pc1))>>),
             And(LE(Add(Mul(pc1, pc2), pc3), px), LT(px, Mul(Add(pc1, K(pc1, 1)), pc2))), ret)
    [] i = 23 ->
         TVM_TRY_RECURSIVE_REWRITE(PMatchesOneOf(<<And(EQ(FloorDiv(px, pc2), pc1), LT(pc3, FloorMod(px, pc2))), And(LT(pc3, FloorMod(px, pc2)), EQ(FloorDiv(px, pc2), pc1))>>),
             And(LT(Add(Mul(pc1, pc2), pc3), px), LT(px, Mul(Add(pc1, K(pc1, 1)), pc2))), ret)
    [] i = 24 ->
         TVM_TRY_RECURSIVE_REWRITE(And(px, And(py, pz)),
             And(And(px, py), pz), ret)
    [] OTHER -> End

\* VisitExpr_(const OrNode*): the rules
OrRules(i, ret, c) ==
  CASE i = 1 ->
         TVM_TRY_REWRITE(Or(EQ(px, py), NE(px, py)),
             BoolImm(TRUE), ret)
    [] i = 2 ->
         TVM_TRY_REWRITE(Or(NE(px, py), EQ(px, py)),
             BoolImm(TRUE), ret)
    [] i = 3 ->
         TVM_TRY_REWRITE(Or(px, Not(px)),
             BoolImm(TRUE), ret)
    [] i = 4 ->
         TVM_TRY_REWRITE(Or(LE(px, py), LT(py, px)),
             BoolImm(TRUE), ret)
    [] i = 5 ->
         TVM_TRY_REWRITE(Or(LT(py, px), LE(px, py)),
             BoolImm(TRUE), ret)
    [] i = 6 ->
         TVM_TRY_REWRITE(Or(LT(px, py), LT(py, px)),
             NE(px, py), ret)
    [] i = 7 ->
         TVM_TRY_REWRITE_IF(Or(LT(px, pc1), LT(pc2, px)),
             BoolImm(TRUE),
             LAMBDA b: Pure(V(b, "c2") < V(b, "c1")), ret)
    [] i = 8 ->
         TVM_TRY_REWRITE_IF(Or(LT(pc2, px), LT(px, pc1)),
             BoolImm(TRUE),
             LAMBDA b: Pure(V(b, "c2") < V(b, "c1")), ret)
    [] i = 9 ->
         TVM_TRY_REWRITE_IF(Or(LE(px, pc1), LT(pc2, px)),
             BoolImm(TRUE),
             LAMBDA b: Pure(V(b, "c2") <= V(b, "c1")), ret)
    [] i = 10 ->
         TVM_TRY_REWRITE_IF(Or(LT(pc2, px), LE(px, pc1)),
             BoolImm(TRUE),
             LAMBDA b: Pure(V(b, "c2") <= V(b, "c1")), ret)
    [] i = 11 ->
         TVM_TRY_REWRITE_IF(Or(LT(px, pc1), LE(pc2, px)),
             BoolImm(TRUE),
             LAMBDA b: Pure(V(b, "c2") <= V(b, "c1")), ret)
    [] i = 12 ->
         TVM_TRY_REWRITE_IF(Or(LE(pc2, px), LT(px, pc1)),
             BoolImm(TRUE),
             LAMBDA b: Pure(V(b, "c2") <= V(b, "c1")), ret)
    [] i = 13 ->
         TVM_TRY_REWRITE_IF(Or(LE(px, pc1), LE(pc2, px)),
             BoolImm(TRUE),
             LAMBDA b: Pure(V(b, "c2") <= V(b, "c1") + 1), ret)
    [] i = 14 ->
         TVM_TRY_REWRITE_IF(Or(LE(pc2, px), LE(px, pc1)),
             BoolImm(TRUE),
             LAMBDA b: Pure(V(b, "c2") <= V(b, "c1") + 1), ret)
    [] i = 15 ->
         TVM_TRY_REWRITE(Or(NE(px, pc1), NE(px, pc2)),
             Or(NE(px, pc1), NE(pc1, pc2)), ret)
    [] i = 16 ->
         TVM_TRY_REWRITE(Or(NE(px, pc1), EQ(px, pc2)),
             Or(NE(px, pc1), EQ(pc1, pc2)), ret)
    [] i = 17 ->
         TVM_TRY_REWRITE(Or(EQ(px, pc2), NE(px, pc1)),
             Or(NE(px, pc1), EQ(pc1, pc2)), ret)
    [] i = 18 ->
         TVM_TRY_RECURSIVE_REWRITE(Or(LT(px, py), EQ(px, py)),
             LE(px, py), ret)
    [] i = 19 ->
         TVM_TRY_RECURSIVE_REWRITE(Or(LT(px, py), EQ(py, px)),
             LE(px, py), ret)
    [] i = 20 ->
         TVM_TRY_RECURSIVE_REWRITE(Or(EQ(px, py), LT(px, py)),
             LE(px, py), ret)
    [] i = 21 ->
         TVM_TRY_RECURSIVE_REWRITE(Or(EQ(py, px), LT(px, py)),
             LE(px, py), ret)
    [] i = 22 ->
         TVM_TRY_RECURSIVE_REWRITE(Or(px, Or(py, pz)),
             Or(Or(px, py), pz), ret)
    [] OTHER -> End

-----------------------------------------------------------------------------
(* The visitors proper *)

RuleBody(kind, i, ret, c) ==
  CASE kind = "add" -> AddRules(i, ret, c)
    [] kind = "sub" -> SubRules(i, ret, c)
    [] kind = "mul" -> MulRules(i, ret, c)
    [] kind = "div" -> DivRules(i, ret, c)
    [] kind = "mod" -> ModRules(i, ret, c)
    [] kind = "floordiv" -> FloorDivRules(i, ret, c)
    [] kind = "floormod" -> FloorModRules(i, ret, c)
    [] kind = "min" -> MinRules(i, ret, c)
    [] kind = "max" -> MaxRules(i, ret, c)
    [] kind = "eq" -> EQRules(i, ret, c)
    [] kind = "lt" -> LTRules(i, ret, c)
    [] kind = "not" -> NotRules(i, ret, c)
    [] kind = "and" -> AndRules(i, ret, c)
    [] kind = "or" -> OrRules(i, ret, c)

\* the rules of a visitor in source order: the first that matches wins, and
\* ret is returned when none does.  rs lists what each rule of the table
\* would do; only the rules up to the first match are run and counted.
FirstOf(rs, ret, c, acc) ==
  LET stops == {j \in 1..64 : rs[j].hit \/ rs[j].end}
      first == CHOOSE j \in stops : \A i \in stops : j <= i
      r == rs[first]
      plain == {j \in 1..(first - 1) : rs[j].k = RecordAttemptedRewrite(Zero)}
      tried == Plus([Zero EXCEPT !.ra = Cardinality(plain)],
                    Tried(rs, (1..(first - 1)) \ plain))
      k == Plus(acc, tried)
  IN IF r.hit
     THEN IF r.rec
          THEN LET rr == RecursiveRewrite(r.res, c)
               IN R(rr.e, Plus(Plus(k, r.k), rr.k))
          ELSE IF "keep" \in DOMAIN r THEN Same(ret, Plus(k, r.k))
          ELSE R(r.res, Plus(k, r.k))
     ELSE Same(ret, k)
RunRulesBody(kind, ret, c, acc) ==
  FirstOf(<<>> \o [j \in 1..64 |-> Rule(kind, j, ret, c)], ret, c, acc)

ApplyRewriteRules(ret, c, k) == RunRules(Kind(ret), ret, c, k)

\* TryMatchLiteralConstraint(e): true when a stacked constraint is deep-equal
\* to e, false when one is deep-equal to Not(e); the first that answers wins
RECURSIVE MatchLiteral(_, _, _)
MatchLiteral(lit, i, e) ==
  IF i > Len(lit) THEN NullOpt
  ELSE IF lit[i] = e THEN BoolImm(TRUE)
  ELSE IF lit[i] = Not(e) THEN BoolImm(FALSE)
  ELSE MatchLiteral(lit, i + 1, e)
TryMatchLiteralConstraint(e, c) == MatchLiteral(c.lit, 1, e)

\* IRMutatorWithAnalyzer::VisitExpr_ of a binary node: visit a, then b, and
\* keep the node when neither changed
MutateBody(e, c) ==
  LET a == VisitExpr(A(e), c)
      b == VisitExpr(B(e), c)
  IN [e |-> Bin(Kind(e), a.e, b.e), k |-> Plus(a.k, b.k), same |-> a.same /\ b.same]

\* the arithmetic visitors: Add, Sub, Mul, Div, Mod, FloorDiv, FloorMod, Min, Max
VisitArith(e, c) ==
  LET m == Mutate(e, c)
      const_res == TryConstFold(Kind(e), A(m.e), B(m.e))
      r == ApplyRewriteRules(m.e, c, m.k)
  IN IF const_res # NullOpt THEN R(const_res, m.k)
     ELSE [r EXCEPT !.same = r.same /\ m.same]

\* VisitExpr_ of And, Or with kApplyConstraintsToBooleanBranches: a and b as
\* the loop over the branches finds them; a_same, b_same say that a, b are
\* still the nodes of op, visits lists the visits made
StartWalk(e) ==
  [kind |-> Kind(e), a |-> A(e), b |-> B(e), i |-> 0, iterations_since_update |-> 0,
   a_same |-> TRUE, b_same |-> TRUE, k |-> Zero, visits |-> <<>>]

\* the node the first part of VisitExpr_ of EQ, LT, And, Or gives: the walk
\* over the branches when the extension is enabled, the plain mutator if not
VisitBranches(e, c) ==
  IF Kind(e) \in LogicOps /\ kApplyConstraintsToBooleanBranches \in c.ext
  THEN LET w == BranchWalk(StartWalk(e), c)
       IN IF w.a_same /\ w.b_same THEN Same(e, w.k)
          ELSE R(Bin(w.kind, w.a, w.b), w.k)
  ELSE Mutate(e, c)

\* VisitExpr_ of EQ, LT, And, Or: fold, match a literal constraint, then rules
VisitBool(e, c) ==
  LET m == VisitBranches(e, c)
      const_res == TryConstFold(Kind(e), A(m.e), B(m.e))
      match == TryMatchLiteralConstraint(m.e, c)
      r == ApplyRewriteRules(m.e, c, m.k)
  IN IF const_res # NullOpt THEN R(const_res, m.k)
     ELSE IF match # NullOpt THEN R(match, m.k)
     ELSE [r EXCEPT !.same = r.same /\ m.same]

\* VisitExpr_(const NENode*)
VisitNE(e, c) ==
  LET m == Mutate(e, c)
      a == A(m.e)
      b == B(m.e)
      const_res == TryConstFold("ne", a, b)
      match == TryMatchLiteralConstraint(m.e, c)
      t == IF IsIndexType(DType(a)) THEN TryCompareXY(a, b, c) ELSE Pure(kUnknown)
      k == Plus(m.k, t.k)
      decided == Reduce("ne", a, b, t.v)
      eq == ApplyRewriteRules(EQ(a, b), c, k)
  IN IF const_res # NullOpt THEN R(const_res, m.k)
     ELSE IF match # NullOpt THEN R(match, m.k)
     ELSE IF ~IsIndexType(DType(a)) THEN R(ApplyRewriteRules(Not(eq.e), c, eq.k).e,
                                           ApplyRewriteRules(Not(eq.e), c, eq.k).k)
     ELSE IF IsLit(decided) THEN R(decided, k)
     ELSE IF decided # NullOpt THEN R(ApplyRewriteRules(decided, c, k).e,
                                      ApplyRewriteRules(decided, c, k).k)
     ELSE R(ApplyRewriteRules(Not(eq.e), c, eq.k).e, ApplyRewriteRules(Not(eq.e), c, eq.k).k)

\* VisitExpr_(const LENode*)
VisitLE(e, c) ==
  LET m == Mutate(e, c)
      const_res == TryConstFold("le", A(m.e), B(m.e))
      match == TryMatchLiteralConstraint(m.e, c)
      lt == ApplyRewriteRules(LT(B(m.e), A(m.e)), c, m.k)
      nt == ApplyRewriteRules(Not(lt.e), c, lt.k)
      ret == nt.e
      t == TryCompareXY(A(ret), B(ret), c)
      k == Plus(nt.k, t.k)
      decided == Reduce("le", A(ret), B(ret), t.v)
  IN IF const_res # NullOpt THEN R(const_res, m.k)
     ELSE IF match # NullOpt THEN R(match, m.k)
     ELSE IF ~(Is(ret, "le") /\ IsIndexType(DType(A(ret)))) THEN R(ret, nt.k)
     ELSE IF IsLit(decided) THEN R(decided, k)
     ELSE IF decided # NullOpt THEN R(ApplyRewriteRules(decided, c, k).e,
                                      ApplyRewriteRules(decided, c, k).k)
     ELSE R(ret, k)

\* VisitExpr_(const NotNode*)
VisitNot(e, c) ==
  LET a == VisitExpr(A(e), c)
      ret == Not(a.e)
      const_res == TryConstFoldNot(a.e)
      match == TryMatchLiteralConstraint(ret, c)
      r == ApplyRewriteRules(ret, c, a.k)
  IN IF const_res # NullOpt THEN R(const_res, a.k)
     ELSE IF match # NullOpt THEN R(match, a.k)
     ELSE [r EXCEPT !.same = r.same /\ a.same]

\* a Var visitor that does not look the variable up
VisitVarUnmapped(e, c) == Same(e, Zero)

\* VisitExpr_(const VarNode*)
VisitVar(e, c) ==
  LET match == IF DType(e) = "bool" THEN TryMatchLiteralConstraint(e, c) ELSE NullOpt
  IN IF match # NullOpt THEN R(match, Zero)
     ELSE IF c.vmap[e] # NullOpt THEN R(c.vmap[e], Zero)
     ELSE Same(e, Zero)

\* VisitExpr_(const CallNode*) of an extern call without arguments: none of
\* the builtin cases applies
VisitCall(e, c) == Same(e, Zero)

\* VisitExpr(e): count the node and dispatch on its kind
VisitExprBody(e, c) ==
  LET r == CASE IsLit(e) -> Same(e, Zero)
             [] Kind(e) = "call" -> VisitCall(e, c)
             [] Kind(e) \in {"var", "uvar", "bvar"} -> VisitVar(e, c)
             [] Kind(e) \in ArithOps -> VisitArith(e, c)
             [] Kind(e) \in {"eq", "lt", "and", "or"} -> VisitBool(e, c)
             [] Kind(e) = "ne" -> VisitNE(e, c)
             [] Kind(e) = "le" -> VisitLE(e, c)
             [] Kind(e) = "gt" -> VisitExpr(P("lt", B(e), A(e)), c)
             [] Kind(e) = "ge" -> VisitExpr(P("le", B(e), A(e)), c)
             [] Kind(e) = "not" -> VisitNot(e, c)
  IN [r EXCEPT !.k = Plus([Zero EXCEPT !.nv = 1], r.k),
               !.same = r.same /\ Kind(e) \notin {"gt", "ge"}]


\* a normalizer that only strips one double negation
StripDoubleNegation(e) == IF Is(e, "not") /\ Is(A(e), "not") THEN A(A(e)) ELSE e

\* NormalizeBooleanOperators(e): push a negation through the boolean
\* operators and the comparisons, with the folding operators of PrimExpr
NormalizeBooleanOperatorsBody(e) ==
  LET n == A(e)
  IN CASE Is(e, "not") /\ Is(n, "not") -> NormalizeBooleanOperators(A(n))
       [] Is(e, "not") /\ Is(n, "or") ->
            P("and", NormalizeBooleanOperators(PNot(A(n))),
                     NormalizeBooleanOperators(PNot(B(n))))
       [] Is(e, "not") /\ Is(n, "and") ->
            P("or", NormalizeBooleanOperators(PNot(A(n))),
                    NormalizeBooleanOperators(PNot(B(n))))
       [] Is(e, "ge") -> P("le", B(e), A(e))
       [] Is(e, "not") /\ Is(n, "lt") -> P("le", B(n), A(n))
       [] Is(e, "not") /\ Is(n, "gt") -> P("le", A(n), B(n))
       [] Is(e, "gt") -> P("lt", B(e), A(e))
       [] Is(e, "not") /\ Is(n, "le") -> P("lt", B(n), A(n))
       [] Is(e, "not") /\ Is(n, "ge") -> P("lt", A(n), B(n))
       [] Is(e, "not") /\ Is(n, "eq") -> P("ne", A(n), B(n))
       [] Is(e, "not") /\ Is(n, "ne") -> P("eq", A(n), B(n))
       [] OTHER -> e

\* ExtractConstraints(e, keep_composite_constraints = false): the conjuncts
\* of e, left to right
RECURSIVE ExtractConstraints(_)
ExtractConstraints(e) ==
  IF Is(e, "and") THEN ExtractConstraints(A(e)) \o ExtractConstraints(B(e)) ELSE <<e>>

\* an EnterConstraint that pushes each sub-constraint alone
PushWithoutNegation(s, i) ==
  IF i > Len(s) THEN <<>> ELSE <<s[i]>> \o PushConstraints(s, i + 1)

\* the entries EnterConstraint pushes for the sub-constraints s[i..]
PushConstraintsBody(s, i) ==
  IF i > Len(s) THEN <<>>
  ELSE (IF ~SideEffectIsPure(s[i]) THEN <<>>
        ELSE LET negation == IF DType(s[i]) = "bool"
                             THEN NormalizeBooleanOperators(Not(s[i]))
                             ELSE P("eq", s[i], ZeroWithTypeLike(s[i]))
             IN <<s[i], Not(negation)>>)
       \o PushConstraints(s, i + 1)

\* what the bound oracle learns of a variable from the conjunct s
Learn(vb, s) ==
  IF Kind(s) \in {"lt", "le", "gt", "ge", "eq"} /\ Kind(A(s)) = "var" /\ IsInt(B(s))
  THEN LET v == Val(A(s))
           n == Val(B(s))
           lo == CASE Kind(s) \in {"ge", "eq"} -> MaxI(vb[v].min_value, n)
                   [] Kind(s) = "gt" -> MaxI(vb[v].min_value, n + 1)
                   [] OTHER -> vb[v].min_value
           hi == CASE Kind(s) \in {"le", "eq"} -> MinI(vb[v].max_value, n)
                   [] Kind(s) = "lt" -> MinI(vb[v].max_value, n - 1)
                   [] OTHER -> vb[v].max_value
       IN IF lo <= hi THEN [vb EXCEPT ![v] = MakeBound(lo, hi)] ELSE vb
  ELSE vb
RECURSIVE LearnAll(_, _, _)
LearnAll(vb, s, i) == IF i > Len(s) THEN vb ELSE LearnAll(Learn(vb, s[i]), s, i + 1)

\* With<ConstraintContext>(analyzer_, constraint): the context inside the
\* scope, and what entering cost.  The simplifier enters the constraint as
\* EnterConstraint does; the bound oracle and the transitive oracle learn its
\* conjuncts
ConstraintContext(constraint, c) ==
  LET new_constraint == VisitExpr(constraint, c)
      conjuncts == ExtractConstraints(constraint)
  IN [k |-> Plus(new_constraint.k, [Zero EXCEPT !.ce = 1]),
      c |-> [c EXCEPT !.lit = @ \o PushConstraints(ExtractConstraints(new_constraint.e), 1),
                      !.vb = LearnAll(@, conjuncts, 1),
                      !.known = @ \cup {conjuncts[i] : i \in {j \in 1..Len(conjuncts) :
                                                              Kind(conjuncts[j]) \in CmpOps}}]]

\* one round of the loop of VisitExpr_ of And, Or over the branches
WalkStep(w, c) ==
  LET first == w.i % 2 = 0
      to_update == IF first THEN w.a ELSE w.b
      other == IF first THEN w.b ELSE w.a
      constraint == IF w.kind = "and" THEN other
                    ELSE NormalizeBooleanOperators(Not(other))
      context == ConstraintContext(constraint, c)
      updated == VisitExpr(to_update, context.c)
      visit == [branch |-> IF first THEN "a" ELSE "b", constraint |-> constraint,
                to_update |-> to_update, updated |-> updated.e,
                same_as |-> updated.same]
  IN [w EXCEPT !.k = Plus(Plus(@, context.k), updated.k),
               !.a = IF first /\ ~updated.same THEN updated.e ELSE @,
               !.b = IF ~first /\ ~updated.same THEN updated.e ELSE @,
               !.a_same = @ /\ (~first \/ updated.same),
               !.b_same = @ /\ (first \/ updated.same),
               !.i = @ + 1,
               !.iterations_since_update = IF updated.same THEN @ + 1 ELSE 0,
               !.visits = Append(@, visit)]

\* if (iterations_since_update >= 2) break
breaks(w) == w.iterations_since_update >= 2

\* the loop of VisitExpr_ of And, Or over the branches: at most 4 rounds
BranchWalkBody(w, c) ==
  LET w1 == WalkStep(w, c)
      w2 == WalkStep(w1, c)
      w3 == WalkStep(w2, c)
      w4 == WalkStep(w3, c)
  IN IF breaks(w1) THEN w1
     ELSE IF breaks(w2) THEN w2
     ELSE IF breaks(w3) THEN w3
     ELSE w4


\* the call of f on args
Call(f, args) ==
  CASE f = "Match" -> MatchBody(args[1], args[2])
    [] f = "Eval" -> EvalBody(args[1], args[2])
    [] f = "P" -> PBody(args[1], args[2], args[3])
    [] f = "PNot" -> PNotBody(args[1])
    [] f = "MatchOneOf" -> MatchOneOfBody(args[1], args[2], args[3])
    [] f = "VisitExpr" -> VisitExprBody(args[1], args[2])
    [] f = "ConstIntBound" -> ConstIntBoundBody(args[1], args[2])
    [] f = "ModularSet" -> ModularSetBody(args[1], args[2])
    [] f = "RunRules" -> RunRulesBody(args[1], args[2], args[3], args[4])
    [] f = "TryComparisonOfProductAndSum" -> TryComparisonOfProductAndSumBody(args[1], args[2], args[3])
    [] f = "merge_constants" -> merge_constantsBody(args[1])
    [] f = "common_factor" -> common_factorBody(args[1], args[2])
    [] f = "ExtractConstantOffset" -> ExtractConstantOffsetBody(args[1])
    [] f = "NormalizeBooleanOperators" -> NormalizeBooleanOperatorsBody(args[1])
    [] f = "PushConstraints" -> PushConstraintsBody(args[1], args[2])
    [] f = "Mutate" -> MutateBody(args[1], args[2])
    [] f = "CanProveEqual" -> CanProveEqualBody(args[1], args[2], args[3])
    [] f = "CanProveGreaterEqual" -> CanProveGreaterEqualBody(args[1], args[2], args[3])
    [] f = "CanProveLess" -> CanProveLessBody(args[1], args[2], args[3])
    [] f = "CanProve" -> CanProveBody(args[1], args[2])
    [] f = "FloorDivResidue" -> FloorDivResidueBody(args[1], args[2])
    [] f = "TryCompare" -> TryCompareBody(args[1], args[2], args[3])
    [] f = "TryCompareXY" -> TryCompareXYBody(args[1], args[2], args[3])
    [] f = "Rule" -> RuleBody(args[1], args[2], args[3], args[4])
    [] f = "RewriteSimplify" -> RewriteSimplifyBody(args[1], args[2])
    [] f = "BranchWalk" -> BranchWalkBody(args[1], args[2])

-----------------------------------------------------------------------------
(* The state machine: one simplifier and the calls of its public interface *)

NoResult == <<"noresult">>

IndexVars == {Var("x"), Var("y")}
BoolVars == {BVar("p"), BVar("q")}
AllVars == IndexVars \cup BoolVars \cup {UVar("u"), Var("z")}

\* the context a call runs in
Ctx ==
  [lit |-> literal_constraints_, vmap |-> var_map_, ext |-> enabled_extensions_,
   vb |-> var_bound, depth |-> 0, known |-> known,
   vm |-> var_modular]

\* RewriteSimplifierStatsNode
NoStats ==
  [nodes_visited |-> 0, constraints_entered |-> 0, rewrites_attempted |-> 0,
   rewrites_performed |-> 0, max_recursive_depth |-> 0, num_recursive_rewrites |-> 0]
Count(stats, k) ==
  [stats EXCEPT !.nodes_visited = @ + k.nv, !.rewrites_attempted = @ + k.ra,
                !.rewrites_performed = @ + k.rp,
                !.constraints_entered = @ + k.ce,
                !.max_recursive_depth = MaxI(@, k.md),
                !.num_recursive_rewrites = @ + k.nr]

\* how a call that ran the rewrite core with cost k can end: "return", or
\* "budget" when RecordRewrite ran out, or "trap" when it divided by zero
\* (the division is undefined: it may trap, or yield a value and go on)
Endings(k) ==
  IF RewriteBudgetExceeded(stats_.rewrites_performed + k.rp, maximum_rewrite_steps_)
  THEN {"budget"} \cup (IF k.ub THEN {"trap"} ELSE {})
  ELSE {"return"} \cup (IF k.ub THEN {"trap"} ELSE {})

Fatal(how, op) ==
  /\ failure' = how
  /\ last' = [op |-> op, ok |-> FALSE]
  /\ UNCHANGED <<literal_constraints_, var_map_, handles, stats_, enabled_extensions_,
                 maximum_rewrite_steps_, var_bound, known, var_modular, strict_lifo,
                 pipeline>>

\* expr and result hold the argument and the value of the call just made; a
\* step that is no such call clears them
NoExpr == IntImm(0)
Idle == expr' = NoExpr /\ result' = NoResult

\* how operator()(e) ends when the rewrite core gives r
SimplifyEnds(e, r) ==
  \E ending \in Endings(r.k) :
    /\ expr' = e
    /\ IF ending = "return"
       THEN /\ result' = r.e
            /\ stats_' = Count(stats_, r.k)
            /\ last' = [op |-> "simplify", ok |-> TRUE, k |-> r.k, passes |-> r.passes]
            /\ UNCHANGED <<literal_constraints_, var_map_, handles, failure,
                           enabled_extensions_, maximum_rewrite_steps_, var_bound, known, var_modular,
                           strict_lifo,
                 pipeline>>
       ELSE /\ result' = NoResult
            /\ Fatal(ending, "simplify")

\* RewriteSimplifier::operator()(e)
Simplify(e) ==
  /\ failure = "none"
  /\ stats_.nodes_visited < MaxVisited
  /\ SimplifyEnds(e, RewriteSimplify(e, Ctx))

\* the entries pushed for the simplified constraint
Pushed(new_constraint) == PushConstraints(ExtractConstraints(new_constraint), 1)

\* how EnterConstraint(constraint) ends when the constraint simplifies as r and
\* pushes the entries pushed
EnterEnds(constraint, r, pushed) ==
  \E ending \in Endings(r.k) :
    /\ expr' = constraint
    /\ result' = NoResult
    /\ IF ending = "return"
       THEN /\ literal_constraints_' = literal_constraints_ \o pushed
            /\ stats_' = [Count(stats_, r.k) EXCEPT !.constraints_entered = @ + 1]
            /\ handles' = Append(handles,
                            [old_literal_size |-> Len(literal_constraints_),
                             new_literal_size |-> Len(literal_constraints_) + Len(pushed),
                             constraint |-> constraint,
                             before |-> literal_constraints_,
                             pushed |-> pushed,
                             calls |-> 0])
            /\ last' = [op |-> "enter", ok |-> TRUE, k |-> r.k]
            /\ UNCHANGED <<var_map_, failure, enabled_extensions_,
                           maximum_rewrite_steps_, var_bound, known, var_modular, strict_lifo,
                 pipeline>>
       ELSE Fatal(ending, "enter")
EnterSimplified(constraint, r) == EnterEnds(constraint, r, Pushed(r.e))

\* RewriteSimplifier::Impl::EnterConstraint(constraint) and the closure it
\* returns; operator() of the Impl is one pass of the rewrite core
EnterConstraint(constraint) ==
  /\ failure = "none"
  /\ stats_.nodes_visited < MaxVisited
  /\ Len(handles) < MaxEnter
  /\ EnterSimplified(constraint, VisitExpr(constraint, Ctx))

\* the handles whose closure has not run yet
Open == {i \in 1..Len(handles) : handles[i].calls = 0}
Innermost == IF Open = {} THEN 0 ELSE CHOOSE i \in Open : \A j \in Open : j <= i

\* a resize that leaves one entry too many
ResizeOffByOne(v, n) == SubSeq(v, 1, IF n < Len(v) THEN n + 1 ELSE n)
\* literal_constraints_.resize(n), n never above the size
Resize(v, n) == SubSeq(v, 1, n)

\* frecover(), the closure of the h-th EnterConstraint
frecover(h) ==
  /\ failure = "none"
  /\ h \in 1..Len(handles)
  /\ handles[h].calls < MaxCalls
  /\ handles' = [handles EXCEPT ![h].calls = @ + 1]
  /\ strict_lifo' = (strict_lifo /\ h = Innermost)
  /\ IF Len(literal_constraints_) # handles[h].new_literal_size
     THEN /\ failure' = "ICHECK_EQ"
          /\ last' = [op |-> "restore", ok |-> FALSE, h |-> h,
                      stack |-> literal_constraints_]
          /\ UNCHANGED literal_constraints_
     ELSE /\ literal_constraints_' =
                Resize(literal_constraints_, handles[h].old_literal_size)
          /\ last' = [op |-> "restore", ok |-> TRUE, h |-> h,
                      stack |-> literal_constraints_]
          /\ UNCHANGED failure
  /\ Idle
  /\ UNCHANGED <<var_map_, stats_, enabled_extensions_,
                 maximum_rewrite_steps_, var_bound, known, var_modular,
                 pipeline>>

\* RewriteSimplifier::Impl::Update(var, info, can_override)
Update(var, info, can_override) ==
  /\ failure = "none"
  /\ IF ~can_override /\ var_map_[var] # NullOpt /\ var_map_[var] # info
     THEN /\ failure' = "ICHECK"
          /\ UNCHANGED var_map_
     ELSE /\ var_map_' = [var_map_ EXCEPT ![var] = info]
          /\ UNCHANGED failure
  /\ last' = [op |-> "update", ok |-> (failure' = "none"), var |-> var, info |-> info,
              can_override |-> can_override, map |-> var_map_]
  /\ Idle
  /\ UNCHANGED <<literal_constraints_, handles, stats_,
                 enabled_extensions_, maximum_rewrite_steps_, var_bound, known, var_modular, strict_lifo,
                 pipeline>>

\* RewriteSimplifier::SetMaximumRewriteSteps(maximum)
SetMaximumRewriteSteps(maximum) ==
  /\ failure = "none"
  /\ maximum_rewrite_steps_' = maximum
  /\ last' = [op |-> "budget", ok |-> TRUE]
  /\ Idle
  /\ UNCHANGED <<literal_constraints_, var_map_, handles, stats_,
                 enabled_extensions_, var_bound, known, var_modular, failure, strict_lifo,
                 pipeline>>

\* RewriteSimplifier::ResetStatsCounters()
ResetStatsCounters ==
  /\ failure = "none"
  /\ stats_ # NoStats
  /\ stats_' = NoStats
  /\ last' = [op |-> "reset", ok |-> TRUE]
  /\ Idle
  /\ UNCHANGED <<literal_constraints_, var_map_, handles,
                 enabled_extensions_, maximum_rewrite_steps_, var_bound, known, var_modular, failure,
                 strict_lifo,
                 pipeline>>


-----------------------------------------------------------------------------
(* Inputs *)

\* the literals the inputs are built from
Lits == {-2, 0, 1, 2, 4}
Leaves == IndexVars \cup {IntImm(n) : n \in Lits}
\* every arithmetic node over the leaves
Arith1 == {Bin(op, a, b) : op \in ArithOps, a \in Leaves, b \in Leaves}

\* what the analyzer may know about the variables
BoundedVars == {"x", "y", "z"}
Unbounded == [v \in BoundedVars |-> Everything]
NonNegative == [v \in BoundedVars |-> MakeBound(0, kPosInf)]
AnyInteger == [v \in BoundedVars |-> MakeModular(1, 0)]

\* no call of handle_reduction_decomposition is under way
NoPipeline ==
  /\ original_blocks = <<>>
  /\ pipeline_stages = <<>>
  /\ processed_blocks = <<>>
  /\ processed_stages = <<>>

Fresh ==
  /\ NoPipeline
  /\ result = NoResult
  /\ literal_constraints_ = <<>>
  /\ var_map_ = [v \in AllVars |-> NullOpt]
  /\ handles = <<>>
  /\ stats_ = NoStats
  /\ maximum_rewrite_steps_ = DefaultMaximumRewriteSteps
  /\ failure = "none"
  /\ strict_lifo = TRUE
  /\ last = [op |-> "init", ok |-> TRUE]

\* every comparison of two leaves
Cmp1 == {Bin(op, a, b) : op \in CmpOps, a \in Leaves, b \in Leaves}
\* the boolean nodes over the boolean leaves
BoolLeaves == BoolVars \cup {BoolImm(TRUE), BoolImm(FALSE)}
Bool1 ==
  {Bin(op, a, b) : op \in LogicOps, a \in BoolLeaves, b \in BoolLeaves}
    \cup {Not(a) : a \in BoolLeaves}
\* an arithmetic node over a variable and a literal, nested in another
Inner ==
  {Bin(op, Var("x"), b) :
     op \in {"add", "sub", "mul", "floordiv", "floormod", "min", "max"},
     b \in {Var("y"), IntImm(1), IntImm(2)}}
Arith2 ==
  {Bin(op, a, b) : op \in ArithOps, a \in Inner, b \in {Var("x"), Var("y"), IntImm(1), IntImm(2)}}
    \cup {Bin(op, a, b) : op \in ArithOps, a \in {Var("x"), Var("y"), IntImm(1), IntImm(2)}, b \in Inner}
\* a bound on x next to a comparison of a remainder of x
BoundAndRemainder ==
  {Bin(op, Bin(cmp, Var("x"), IntImm(c1)), LT(FloorMod(Var("x"), IntImm(c2)), IntImm(c3))) :
     op \in LogicOps, cmp \in {"lt", "le"}, c1 \in {2, 4}, c2 \in {-2, 0, 2}, c3 \in {0, 1}}
\* nodes of an integer type that is no index type
NonIndex ==
  {Bin(op, a, b) : op \in {"add", "sub", "mul"},
                   a \in {UVar("u"), UIntImm(1), UIntImm(2)},
                   b \in {UVar("u"), UIntImm(1), UIntImm(2)}}

\* a remainder of a multiple plus a literal, and a halved sum less a remainder
FloorModOfSum == FloorMod(Add(Mul(Var("x"), IntImm(4)), IntImm(2)), IntImm(4))
HalfSum(c1) ==
  Sub(FloorDiv(Add(Var("x"), IntImm(c1)), IntImm(2)), FloorMod(Var("x"), IntImm(2)))
Worked == {FloorModOfSum, HalfSum(1), HalfSum(3)}

\* one call of the simplifier on an input drawn at the start
Inputs ==
  Arith1 \cup Cmp1 \cup Bool1 \cup Arith2 \cup BoundAndRemainder \cup NonIndex \cup Worked
InitSimplify ==
  /\ expr \in Inputs
  /\ var_bound \in {Unbounded, NonNegative}
  /\ known = {}
  /\ var_modular = AnyInteger
  /\ enabled_extensions_ = {}
  /\ Fresh
SimplifyInput == result = NoResult /\ Simplify(expr)
NextSimplify == SimplifyInput
SpecSimplify == InitSimplify /\ [][NextSimplify]_vars


-----------------------------------------------------------------------------
(* The simplifier driven through its interface: constraints entered and     *)
(* left, variables bound, the budget set, expressions simplified.           *)

X == Var("x")
Y == Var("y")
Bp == BVar("p")
Bq == BVar("q")

\* the constraints that are entered
Constraints ==
  {Bp, Not(Bp), And(Bp, Bq), Or(Bp, Bq), BoolImm(FALSE),
   LT(X, IntImm(2)), LE(X, IntImm(2)), GE(X, IntImm(2)), NE(X, Y),
   LT(Add(X, IntImm(1)), IntImm(3)), ExternCall("f")}

Init ==
  /\ expr = NoExpr
  /\ var_bound = Unbounded
  /\ known = {}
  /\ var_modular = AnyInteger
  /\ enabled_extensions_ = {}
  /\ Fresh

\* a constraint in force, or its negation, is simplified
SimplifyConstraint ==
  \E h \in Open : Simplify(handles[h].constraint) \/ Simplify(Not(handles[h].constraint))

Next ==
  \/ \E e \in Constraints : EnterConstraint(e)
  \/ \E h \in 1..MaxEnter : frecover(h)
  \/ SimplifyConstraint
  \/ ResetStatsCounters

Spec == Init /\ [][Next]_vars

\* variables are bound and looked up, also under a constraint
Bindings == {<<X, IntImm(1)>>, <<X, Y>>, <<Bp, Bq>>, <<Bp, BoolImm(TRUE)>>}
NextUpdate ==
  \/ \E b \in Bindings, can_override \in BOOLEAN : Update(b[1], b[2], can_override)
  \/ \E e \in {X, Bp, Add(X, Y), And(Bp, Bq)} : Simplify(e)
  \/ \E e \in {Bp, Not(Bp)} : EnterConstraint(e)
  \/ ResetStatsCounters
SpecUpdate == Init /\ [][NextUpdate]_vars

\* the budget is set and expressions are simplified under it
Queries ==
  Arith1 \cup
  {Min(Add(X, IntImm(1)), Add(X, IntImm(2))),
   Add(Min(X, Add(X, IntImm(1))), Min(Y, Add(Y, IntImm(1)))),
   Sub(Mul(X, Y), X), LT(Add(X, IntImm(1)), Add(Y, IntImm(2))),
   And(LT(X, IntImm(4)), LT(FloorMod(X, IntImm(2)), IntImm(1)))}
NextBudget ==
  \/ \E n \in 1..MaxSteps : SetMaximumRewriteSteps(n)
  \/ \E e \in Queries : Simplify(e)
  \/ ResetStatsCounters
SpecBudget == Init /\ [][NextBudget]_vars

-----------------------------------------------------------------------------
(* The comparison helpers called on their own: TryCompare(x, y) and         *)
(* TryCompare(x, val) on arguments, extension flags and analyzer knowledge  *)
(* drawn at the start.                                                      *)

Z == Var("z")
\* what the analyzer may know of the variables
BoundPool == {Everything, MakeBound(0, kPosInf), MakeBound(1, 2), MakeBound(1, kPosInf)}
FactorPool == {MakeBound(1, 2), MakeBound(1, kPosInf), MakeBound(17, kPosInf)}
Odd == MakeModular(2, 1)
\* the even integers, as the set of the integers 2 + 2k
EvenFromTwo == [coeff |-> 2, base |-> 2]
\* the modular sets the oracle may report for x: coeff >= 0 is all it promises
ModularPool == {MakeModular(1, 0), Odd, EvenFromTwo}
\* the inequalities the analyzer may hold
OddApart == <<Mul(X, IntImm(2)), Add(Mul(Y, IntImm(2)), IntImm(1))>>
KnownPool ==
  {{}, {LT(X, Y)}, {LE(X, Y), NE(X, Y)}, {LT(X, Z), LT(Z, Y)}, {GE(X, Y)},
   {LE(OddApart[1], OddApart[2])}}
\* the extensions that gate TryCompare
CompareExtensions == {kTransitivelyProveInequalities, kComparisonOfProductAndSum}

\* the pairs compared: the variables and sums over them, and a product of a
\* sum against a product of a product
Plain ==
  {<<X, Y>>, <<Y, X>>, <<X, Add(X, IntImm(1))>>, OddApart}
SumProduct == {Mul(Add(X, Y), t) : t \in {IntImm(4), Z}}
ProductProduct == {Mul(Mul(X, Y), t) : t \in {IntImm(2), Z}}
Products == (SumProduct \X ProductProduct) \cup (ProductProduct \X SumProduct)
XYQueries == Plain \cup Products
\* the expressions compared with a literal, and the literals
ValQueries ==
  {X, Mul(X, IntImm(2)), Add(Mul(X, IntImm(2)), IntImm(1)), Sub(X, Y), Sub(X, X), IntImm(1)}
    \X {IntImm(0), IntImm(1)}

\* the CompareResult a comparison returned
Answer(v) == <<"CompareResult", v>>

\* how a comparison with arguments q ends when it gives r
CompareEnds(q, r, layers) ==
  \E ending \in Endings(r.k) :
    /\ expr' = q
    /\ IF ending = "return"
       THEN /\ result' = Answer(r.v)
            /\ stats_' = Count(stats_, r.k)
            /\ last' = [op |-> "compare", ok |-> TRUE, k |-> r.k, layers |-> layers]
            /\ UNCHANGED <<literal_constraints_, var_map_, handles, failure,
                           enabled_extensions_, maximum_rewrite_steps_, var_bound, known,
                           var_modular, strict_lifo,
                 pipeline>>
       ELSE /\ result' = NoResult
            /\ Fatal(ending, "compare")
CompareXYEnds(q, r) == CompareEnds(q, r, r.layers)

\* RewriteSimplifier::Impl::TryCompare(x, y) on the pair drawn
CompareXY ==
  /\ failure = "none"
  /\ result = NoResult
  /\ expr \in XYQueries
  /\ CompareXYEnds(expr, TryCompareXY(expr[1], expr[2], Ctx))

\* RewriteSimplifier::Impl::TryCompare(x, val) on the pair drawn
CompareVal ==
  /\ failure = "none"
  /\ result = NoResult
  /\ expr \in ValQueries
  /\ CompareEnds(expr, TryCompare(expr[1], Val(expr[2]), Ctx), <<"bounds">>)

\* products are compared under bounds of their factors, plain pairs under
\* inequalities the analyzer holds, and an expression with a literal under a
\* bound and a modular set of x
InitCompare ==
  /\ \/ /\ expr \in Products
        /\ var_bound \in [BoundedVars -> FactorPool]
        /\ known = {}
        /\ var_modular = AnyInteger
     \/ /\ expr \in Plain
        /\ var_bound \in {Unbounded, NonNegative}
        /\ known \in KnownPool
        /\ var_modular = AnyInteger
     \/ /\ expr \in ValQueries
        /\ \E b \in BoundPool : var_bound = [Unbounded EXCEPT !["x"] = b]
        /\ known \in {{}, {LT(X, IntImm(0))}}
        /\ var_modular \in {[AnyInteger EXCEPT !["x"] = m] : m \in ModularPool}
  /\ enabled_extensions_ \in SUBSET CompareExtensions
  /\ Fresh
NextCompare == CompareXY \/ CompareVal
SpecCompare == InitCompare /\ [][NextCompare]_vars



-----------------------------------------------------------------------------
(* The visitor of And and Or called on a node drawn at the start, with and  *)
(* without the extension that applies each branch as a constraint to the    *)
(* other.                                                                   *)

\* the branches: boolean variables, a negation, a literal, and a comparison
\* that every visit rebuilds as an equal node
Rebuilt == NE(Bp, Bq)
Branches ==
  {Bp, Bq, Not(Bp), BoolImm(TRUE), Rebuilt}
Connectives == {Bin(op, a, b) : op \in LogicOps, a \in Branches, b \in Branches}

\* how VisitExpr(e) ends when it gives r after the walk w over the branches
VisitEnds(e, r, w) ==
  \E ending \in Endings(r.k) :
    /\ expr' = e
    /\ IF ending = "return"
       THEN /\ result' = r.e
            /\ stats_' = Count(stats_, r.k)
            /\ last' = [op |-> "visit", ok |-> TRUE, k |-> r.k, visits |-> w.visits,
                        kept |-> w.a_same /\ w.b_same]
            /\ UNCHANGED <<literal_constraints_, var_map_, handles, failure,
                           enabled_extensions_, maximum_rewrite_steps_, var_bound, known,
                           var_modular, strict_lifo, pipeline>>
       ELSE /\ result' = NoResult
            /\ Fatal(ending, "visit")

\* RewriteSimplifier::Impl::VisitExpr(expr) on the And or Or node drawn
VisitConnective ==
  /\ failure = "none"
  /\ result = NoResult
  /\ expr \in Connectives
  /\ VisitEnds(expr, VisitExpr(expr, Ctx),
               IF kApplyConstraintsToBooleanBranches \in enabled_extensions_
               THEN BranchWalk(StartWalk(expr), Ctx) ELSE StartWalk(expr))

InitBranches ==
  /\ expr \in Connectives
  /\ var_bound = Unbounded
  /\ known = {}
  /\ var_modular = AnyInteger
  /\ enabled_extensions_ \in {{}, {kApplyConstraintsToBooleanBranches}}
  /\ Fresh
NextBranches == VisitConnective
SpecBranches == InitBranches /\ [][NextBranches]_vars

-----------------------------------------------------------------------------
(* The comparison visitors on a comparison of two leaves: the node is        *)
(* visited in one pass, and EQ, NE, LT, LE are also taken through the case   *)
(* analysis the visitors make of each CompareResult.                         *)

CompareResults == {kEQ, kLT, kGT, kLE, kGE, kNE, kUnknown}

\* RewriteSimplifier::Impl::VisitExpr on the comparison drawn
VisitComparison ==
  /\ failure = "none"
  /\ result = NoResult
  /\ VisitEnds(expr, VisitExpr(expr, Ctx), StartWalk(expr))

\* the visitor of the EQ, NE, LT or LE node drawn, at the point where
\* TryCompare has answered compared
DecideComparison ==
  /\ failure = "none"
  /\ result = NoResult
  /\ Kind(expr) \in {"eq", "ne", "lt", "le"}
  /\ \E compared \in CompareResults :
       LET decided == Reduce(Kind(expr), A(expr), B(expr), compared)
       IN /\ result' = IF decided = NullOpt THEN expr ELSE decided
          /\ last' = [op |-> "reduce", ok |-> TRUE, compared |-> compared,
                      decided |-> decided # NullOpt]
  /\ UNCHANGED <<expr, literal_constraints_, var_map_, handles, stats_, failure,
                 enabled_extensions_, maximum_rewrite_steps_, var_bound, known,
                 var_modular, strict_lifo, pipeline>>

InitDesugar ==
  /\ expr \in Cmp1
  /\ var_bound = Unbounded
  /\ known = {}
  /\ var_modular = AnyInteger
  /\ enabled_extensions_ = {}
  /\ Fresh
NextDesugar == VisitComparison \/ DecideComparison
SpecDesugar == InitDesugar /\ [][NextDesugar]_vars

-----------------------------------------------------------------------------
(* NormalizeBooleanOperators called on a boolean expression drawn at the     *)
(* start.                                                                    *)

\* comparisons, boolean leaves, conjunctions and disjunctions, and up to three
\* negations of them
Atoms ==
  {Bin(op, ab[1], ab[2]) : op \in CmpOps,
                           ab \in {<<X, Y>>, <<X, IntImm(1)>>, <<IntImm(1), IntImm(2)>>}}
    \cup BoolLeaves
Junctions ==
  {Bin(op, a, b) : op \in LogicOps,
                   a \in {Bp, LT(X, Y), Not(Bq), GE(X, IntImm(1))},
                   b \in {Bq, Not(LE(X, Y)), Or(Bp, Bq), BoolImm(TRUE)}}
Negated(S) == {Not(e) : e \in S}
Booleans ==
  LET plain == Atoms \cup Junctions
  IN plain \cup Negated(plain) \cup Negated(Negated(plain))
       \cup Negated(Negated(Negated(plain)))

\* NormalizeBooleanOperators(expr)
NormalizeInput ==
  /\ failure = "none"
  /\ result = NoResult
  /\ result' = NormalizeBooleanOperators(expr)
  /\ last' = [op |-> "normalize", ok |-> TRUE]
  /\ UNCHANGED <<expr, literal_constraints_, var_map_, handles, stats_, failure,
                 enabled_extensions_, maximum_rewrite_steps_, var_bound, known,
                 var_modular, strict_lifo, pipeline>>

InitNormalize ==
  /\ expr \in Booleans
  /\ var_bound = Unbounded
  /\ known = {}
  /\ var_modular = AnyInteger
  /\ enabled_extensions_ = {}
  /\ Fresh
NextNormalize == NormalizeInput
SpecNormalize == InitNormalize /\ [][NextNormalize]_vars

-----------------------------------------------------------------------------
(* EnterConstraint on boolean and integer constraints, with and without      *)
(* side effects, and the closures it returns called in any order.            *)

Entered ==
  {Bp, Not(Bp), And(Bp, Bq), And(And(Bp, LT(X, IntImm(2))), Bq), Or(Bp, Bq),
   GE(X, IntImm(2)), NE(X, Y), LE(X, X), ExternCall("f"), And(Bp, ExternCall("f")),
   And(ExternCall("f"), Not(Bq)), X, Add(X, IntImm(1)), IntImm(1), BoolImm(FALSE)}

NextEnter ==
  \/ \E e \in Entered : EnterConstraint(e)
  \/ \E h \in 1..MaxEnter : frecover(h)
  \/ ResetStatsCounters
SpecEnter == Init /\ [][NextEnter]_vars

-----------------------------------------------------------------------------
(* ApplyRewriteRules on a node drawn at the start, up to the rule that       *)
(* fires: the rules of the table are tried in order, and the replacement is  *)
(* taken as the first rule that matches gives it, before RecursiveRewrite    *)
(* re-enters the simplifier on it.                                           *)

\* truncdiv(x + c1, c3) - truncdiv(x + c2, c3)
DivDifferences ==
  {Sub(Div(Add(X, IntImm(c1)), IntImm(c3)), Div(Add(X, IntImm(c2)), IntImm(c3))) :
     c1 \in 1..3, c2 \in {-1, 1, 2}, c3 \in {2, 3}}
\* x < c1 && floormod(x, c2) < c3 and x <= c1 && floormod(x, c2) < c3
BoundTightenings ==
  {And(Bin(cmp, X, IntImm(c1)), LT(FloorMod(X, IntImm(c2)), IntImm(c3))) :
     cmp \in {"lt", "le"}, c1 \in {1, 2, 3, 4}, c2 \in {-2, 2, 3}, c3 \in {-1, 0, 1, 3}}
\* a variable with and without a constant offset, on either side of <
Offsets ==
  {X, Y} \cup {Add(v, IntImm(n)) : v \in {X, Y}, n \in {1, 2}}
         \cup {Sub(v, IntImm(n)) : v \in {X, Y}, n \in {1, 2}}
         \cup {Sub(IntImm(n), v) : v \in {X, Y}, n \in {1, 2}}
OffsetComparisons == {LT(a, b) : a \in Offsets, b \in Offsets}
\* what the analyzer knows of x: a lower bound
LowerBounded(lo) == [Unbounded EXCEPT !["x"] = MakeBound(lo, kPosInf)]

\* the first rule of rs that fires (0 when none does) and what it gives for ret
FirstRule(rs, ret) ==
  LET stops == {j \in 1..64 : rs[j].hit \/ rs[j].end}
      first == CHOOSE j \in stops : \A i \in stops : j <= i
  IN IF rs[first].hit THEN [rule |-> first, res |-> rs[first].res]
     ELSE [rule |-> 0, res |-> ret]
\* the rules of the table of expr up to the first that fires
ApplyFirstRule ==
  /\ failure = "none"
  /\ result = NoResult
  /\ \E fired \in {FirstRule(<<>> \o [j \in 1..64 |-> Rule(Kind(expr), j, expr, Ctx)], expr)} :
       /\ result' = fired.res
       /\ last' = [op |-> "rule", ok |-> TRUE, rule |-> fired.rule]
  /\ UNCHANGED <<expr, literal_constraints_, var_map_, handles, stats_, failure,
                 enabled_extensions_, maximum_rewrite_steps_, var_bound, known,
                 var_modular, strict_lifo, pipeline>>

InitRules ==
  /\ \/ expr \in DivDifferences /\ var_bound \in {LowerBounded(lo) : lo \in -2..1}
     \/ expr \in BoundTightenings \cup OffsetComparisons /\ var_bound = Unbounded
  /\ known = {}
  /\ var_modular = AnyInteger
  /\ enabled_extensions_ = {}
  /\ Fresh
NextRules == ApplyFirstRule
SpecRules == InitRules /\ [][NextRules]_vars

-----------------------------------------------------------------------------
(* test_fix_logic.cpp: handle_reduction_decomposition, which brings the     *)
(* blocks of a software pipeline and their stage annotations to one length  *)
(* after reduction decomposition has added init blocks.                     *)

\* the longest block list and annotation list handed in
MaxBlocks == 3
MaxStages == 4
\* Block::name_hint of the blocks, and the annotation values
BlockNames == {"load", "_init", "c_init", "c_update"}
Stages == {0, 1}
\* what a read past the end of the annotations may give
Garbage == {-1, 0}
\* the lists of at most n elements of S
UpTo(S, n) == UNION {[1..k -> S] : k \in 0..n}

\* an init test that forgets the length of the name
ends_in_init(block_name) ==
  /\ Len(block_name) >= 5
  /\ SubSeq(block_name, Len(block_name) - 4, Len(block_name)) = "_init"

\* block_name.length() > 5 && block_name.substr(block_name.length() - 5) == "_init"
is_init_name(block_name) ==
  /\ Len(block_name) > 5
  /\ SubSeq(block_name, Len(block_name) - 4, Len(block_name)) = "_init"

\* the flags and the count the first loop computes
is_init_block(blocks) == [i \in 1..Len(blocks) |-> is_init_name(blocks[i])]
init_block_count(blocks) == Cardinality({i \in 1..Len(blocks) : is_init_block(blocks)[i]})

\* the blocks the second loop keeps
RECURSIVE filtered_blocks(_, _)
filtered_blocks(blocks, i) ==
  IF i > Len(blocks) THEN <<>>
  ELSE IF ~is_init_block(blocks)[i] THEN <<blocks[i]>> \o filtered_blocks(blocks, i + 1)
  ELSE filtered_blocks(blocks, i + 1)

\* the annotations the third loop builds when pipeline_stages.back() gives back
extended_stages(blocks, stages, back) ==
  [i \in 1..Len(blocks) |-> IF i <= Len(stages) THEN stages[i] ELSE back[i]]

\* how the call returns blocks and stages after reads reads past the end
Returns(blocks, stages, reads) ==
  /\ processed_blocks' = blocks
  /\ processed_stages' = stages
  /\ failure' = "none"
  /\ last' = [op |-> "handle", ok |-> TRUE, past_the_end |-> reads]

\* handle_reduction_decomposition(original_blocks, pipeline_stages)
handle_reduction_decomposition ==
  /\ last.op = "init"
  /\ LET blocks == Len(original_blocks)
         stages == Len(pipeline_stages)
         extra == IF blocks > stages THEN blocks - stages ELSE 0
     IN IF stages = blocks THEN Returns(original_blocks, pipeline_stages, 0)
        ELSE IF blocks - init_block_count(original_blocks) = stages
        THEN Returns(filtered_blocks(original_blocks, 1), pipeline_stages, 0)
        ELSE IF stages > 0 \/ blocks = 0
        THEN Returns(original_blocks,
                     extended_stages(original_blocks, pipeline_stages,
                                     [i \in 1..blocks |-> pipeline_stages[stages]]), 0)
        \* pipeline_stages.back() on an empty vector: any value, or a crash
        ELSE \/ \E back \in [1..blocks -> Garbage] :
                  Returns(original_blocks,
                          extended_stages(original_blocks, pipeline_stages, back), extra)
             \/ /\ failure' = "read past the end"
                /\ last' = [op |-> "handle", ok |-> FALSE, past_the_end |-> 1]
                /\ UNCHANGED <<processed_blocks, processed_stages>>
  /\ UNCHANGED <<expr, result, literal_constraints_, var_map_, handles, stats_,
                 enabled_extensions_, maximum_rewrite_steps_, var_bound, known, var_modular,
                 strict_lifo, original_blocks, pipeline_stages>>

\* one call on lists drawn at the start
InitPipeline ==
  /\ original_blocks \in UpTo(BlockNames, MaxBlocks)
  /\ pipeline_stages \in UpTo(Stages, MaxStages)
  /\ processed_blocks = <<>>
  /\ processed_stages = <<>>
  /\ expr = NoExpr
  /\ result = NoResult
  /\ literal_constraints_ = <<>>
  /\ var_map_ = [v \in AllVars |-> NullOpt]
  /\ handles = <<>>
  /\ stats_ = NoStats
  /\ enabled_extensions_ = {}
  /\ maximum_rewrite_steps_ = DefaultMaximumRewriteSteps
  /\ var_bound = Unbounded
  /\ known = {}
  /\ var_modular = AnyInteger
  /\ failure = "none"
  /\ strict_lifo = TRUE
  /\ last = [op |-> "init", ok |-> TRUE]
NextPipeline == handle_reduction_decomposition
SpecPipeline == InitPipeline /\ [][NextPipeline]_vars

-------------------------------------------------------------------------------------------------------------------------------
(* Properties *)

\* the variables of e
FreeVars(e) == {Val(t) : t \in {u \in SubExprs(e) : Kind(u) \in {"var", "uvar", "bvar"}}}
\* the values a variable ranges over: an index variable stays within what the
\* analyzer knows of it, and a variable that e does not hold is left at 0
Range(e, v) ==
  IF v \notin FreeVars(e) THEN {0}
  ELSE CASE v \in BoundedVars ->
              MaxI(-EnvBound, var_bound[v].min_value)..MinI(EnvBound, var_bound[v].max_value)
         [] v \in {"p", "q"} -> {0, 1}
         [] OTHER -> 0..EnvBound
Envs(e) ==
  [x : Range(e, "x"), y : Range(e, "y"), z : Range(e, "z"),
   p : Range(e, "p"), q : Range(e, "q"), u : Range(e, "u")]
\* the call just made was operator() on an index-typed or boolean expression
Simplified == last.op = "simplify" /\ DType(expr) \in {"index", "bool"}

\* C1: wherever the expression has a value, simplifying it returns an
\* expression that has the same value
C1_SemanticEquivalence ==
  Simplified =>
    \A rho \in Envs(expr) :
      Value(expr, rho).ok => result # NoResult /\ Value(result, rho) = Value(expr, rho)

\* C2: simplifying the result of a call again, in the same context, gives the
\* result back
C2_Idempotent ==
  (last.op = "simplify" /\ last.ok) => RewriteSimplify(result, Ctx).e = result

\* the divisions of e by the integer literal 0
ZeroDivisions(e) ==
  {t \in SubExprs(e) : Kind(t) \in {"div", "mod", "floordiv", "floormod"}
                        /\ DType(t) = "index" /\ B(t) = IntImm(0)}
\* C8: a call on an expression that holds a division by the literal 0 does
\* not divide by zero, returns, and keeps the division in its result
C8_NoDivisionByZero ==
  (last.op = "simplify" /\ ZeroDivisions(expr) # {}) =>
    /\ last.ok
    /\ ~last.k.ub
    /\ ZeroDivisions(expr) \subseteq SubExprs(result)

\* a literal stands left of a non-literal in an Add or Mul, or right in a Sub
LiteralLeft(t, ops) == Kind(t) \in ops /\ IsLit(A(t)) /\ ~IsLit(B(t))
LiteralRight(t) == Kind(t) = "sub" /\ IsLit(B(t))
InForce == {handles[h].constraint : h \in Open}

\* C3: after EnterConstraint(e) and before its restore handle is called,
\* simplify(e) returns the literal true and simplify(Not(e)) the literal false
C3_ConstraintFaithfulness ==
  (last.op = "simplify" /\ last.ok) =>
    /\ expr \in InForce => result = BoolImm(TRUE)
    /\ expr \in {Not(e) : e \in InForce} => result = BoolImm(FALSE)

\* the call that just ended was handle h's first, made in LIFO order
RestoredInOrder(h) ==
  /\ last.op = "restore" /\ last.h = h
  /\ handles[h].calls = 1
  /\ strict_lifo

\* C4: when every handle is called exactly once in strict LIFO order, calling
\* the handle of EnterConstraint(c) leaves the literal-constraint stack with
\* the size and the entries it had immediately before that EnterConstraint(c)
C4_StackDiscipline ==
  \A h \in 1..Len(handles) :
    RestoredInOrder(h) =>
      /\ last.ok
      /\ literal_constraints_ = handles[h].before

\* an inner constraint was left and the outer one's entries are what remains
C4_Witness ==
  /\ Len(handles) = 2
  /\ RestoredInOrder(2)
  /\ handles[1].calls = 0
  /\ handles[2].pushed # <<>>
  /\ literal_constraints_ = handles[1].pushed
  /\ literal_constraints_ # <<>>

\* the call that just ended was the first call of handle h, made while a
\* later handle had not been called
RestoredOutOfOrder(h) ==
  /\ last.op = "restore" /\ last.h = h
  /\ handles[h].calls = 1
  /\ \E j \in Open : j > h

\* C5: calling the handle of an outer EnterConstraint while the handle of a
\* later one has not been called fails the size assertion and leaves the stack
C5_OutOfOrderDetected ==
  \A h \in 1..Len(handles) :
    RestoredOutOfOrder(h) =>
      /\ ~last.ok
      /\ failure = "ICHECK_EQ"
      /\ literal_constraints_ = last.stack

\* C6: calling the same restore handle a second time fails the assertion and
\* removes no entry
C6_NoSecondRestore ==
  \A h \in 1..Len(handles) :
    (last.op = "restore" /\ last.h = h /\ handles[h].calls >= 2) =>
      /\ ~last.ok
      /\ literal_constraints_ = last.stack

\* the nodes one call replaced: the firings of the rewrite macros and the
\* rewrites the visitors return directly
Replacements(k) == k.mf + k.dr

\* C7: under a maximum n set with SetMaximumRewriteSteps, one simplification
\* replaces a node by a rewritten expression at most n times, counting the
\* rewrites returned directly without the macros
C7_BoundedRewrites ==
  (last.op = "simplify" /\ last.ok) => Replacements(last.k) <= maximum_rewrite_steps_

\* the Update that just ended was refused: no override, and var mapped to
\* another value
Refused ==
  /\ ~last.can_override
  /\ last.map[last.var] # NullOpt
  /\ last.map[last.var] # last.info

\* the variables that are mapped
Mapped == {v \in DOMAIN var_map_ : var_map_[v] # NullOpt}

\* C9: Update(var, value, can_override) fails fatally and leaves the map when
\* can_override is false and var is mapped to a different value; in every
\* other case the map afterwards maps var to value and is unchanged elsewhere;
\* and a later visit of a mapped variable returns the mapped value
C9_Update ==
  /\ (last.op = "update" /\ Refused) => ~last.ok /\ var_map_ = last.map
  /\ (last.op = "update" /\ ~Refused) =>
        last.ok /\ var_map_ = [last.map EXCEPT ![last.var] = last.info]
  /\ failure = "none" => \A v \in Mapped : VisitExpr(v, Ctx).e = var_map_[v]

\* a boolean variable that a constraint in force, or its negation, equals
MatchesConstraint(v) ==
  DType(v) = "bool" /\ TryMatchLiteralConstraint(v, Ctx) # NullOpt

\* C9 as the code has it: the same about Update, and a later visit of a mapped
\* variable returns the mapped value unless the variable is boolean and a
\* literal constraint in force equals it or its negation
C9_UpdateUnlessConstrained ==
  /\ (last.op = "update" /\ Refused) => ~last.ok /\ var_map_ = last.map
  /\ (last.op = "update" /\ ~Refused) =>
        last.ok /\ var_map_ = [last.map EXCEPT ![last.var] = last.info]
  /\ failure = "none" =>
        \A v \in Mapped : ~MatchesConstraint(v) => VisitExpr(v, Ctx).e = var_map_[v]

\* x was bound to y with an override allowed, replacing another binding
C9_Witness ==
  /\ last.op = "update" /\ last.ok /\ last.can_override
  /\ last.var = X /\ last.info = Y /\ last.map[X] = IntImm(1)
  /\ var_map_[X] = Y
  /\ VisitExpr(X, Ctx).e = Y

\* C11: simplify(e) runs the rewrite core at most 2 times, and runs no second
\* pass when the first returns a node identical to its input, by pointer or by
\* deep equality
C11_StopsWhenUnchanged ==
  (last.op = "simplify" /\ last.ok) =>
    /\ last.passes \in {1, 2}
    /\ VisitExpr(expr, Ctx).e = expr => last.passes = 1

\* C11 as the code has it: at most 2 passes, and no second pass exactly when
\* the first returns the very node it was given; a pass that rebuilds a
\* deep-equal node is followed by a second pass
C11_StopsWhenSameNode ==
  (last.op = "simplify" /\ last.ok) =>
    /\ last.passes \in {1, 2}
    /\ last.passes = 1 <=> VisitExpr(expr, Ctx).same
    /\ last.passes = 1 => result = expr
    /\ last.passes = 2 => result = VisitExpr(VisitExpr(expr, Ctx).e, Ctx).e

\* a sum no rule changes was returned after one pass
C11_Witness ==
  /\ last.op = "simplify" /\ last.ok
  /\ expr = Add(Var("x"), Var("y"))
  /\ last.passes = 1
  /\ result = expr

\* C13: with no constraint on x, simplify(floormod(x*4 + 2, 4)) returns the
\* node unchanged; with x >= 0 known, it returns the literal 2
C13_FloorModNeedsBound ==
  (last.op = "simplify" /\ last.ok /\ expr = FloorModOfSum) =>
    /\ var_bound = Unbounded => result = expr
    /\ var_bound = NonNegative => result = IntImm(2)

\* C13 as the code has it: simplify(floormod(x*4 + 2, 4)) returns the literal
\* 2, with x >= 0 known and with nothing known of x
C13_FloorModOfSum ==
  (last.op = "simplify" /\ last.ok /\ expr = FloorModOfSum) => result = IntImm(2)

\* floormod(x*4 + 2, 4) was simplified to 2 with nothing known of x
C13_Witness ==
  /\ last.op = "simplify" /\ last.ok
  /\ expr = FloorModOfSum
  /\ var_bound = Unbounded
  /\ result = IntImm(2)

\* C14: simplify(floordiv(x + 3, 2) - floormod(x, 2)) returns floordiv(x, 2)
C14_HalfSumOfThree ==
  (last.op = "simplify" /\ last.ok /\ expr = HalfSum(3)) =>
    result = FloorDiv(Var("x"), IntImm(2))

\* C14 as the code has it: simplify(floordiv(x + 1, 2) - floormod(x, 2))
\* returns floordiv(x, 2)
C14_HalfSumOfOne ==
  (last.op = "simplify" /\ last.ok /\ expr = HalfSum(1)) =>
    result = FloorDiv(Var("x"), IntImm(2))

\* floordiv(x + 1, 2) - floormod(x, 2) was simplified to floordiv(x, 2)
C14_Witness ==
  /\ last.op = "simplify" /\ last.ok
  /\ expr = HalfSum(1)
  /\ result = FloorDiv(Var("x"), IntImm(2))

\* TryCompare((A+B)*C, (A*B)*D) was just called with the product-and-sum
\* extension enabled and the bounds of A, B, C, D at least 1
TermA == ConstIntBound(A(A(expr[1])), Ctx)
TermB == ConstIntBound(B(A(expr[1])), Ctx)
TermC == ConstIntBound(B(expr[1]), Ctx)
TermD == ConstIntBound(B(expr[2]), Ctx)
ComparedProducts ==
  /\ last.op = "compare" /\ last.ok
  /\ expr \in SumProduct \X ProductProduct
  /\ kComparisonOfProductAndSum \in enabled_extensions_
  /\ \A t \in {TermA, TermB, TermC, TermD} : t.min_value >= 1
\* the bounds prove min(A, B) * D <= C
SmallProduct ==
  /\ TermD.max_value # kPosInf
  /\ MinI(TermA.max_value, TermB.max_value) # kPosInf
  /\ MinI(TermA.max_value, TermB.max_value) * TermD.max_value <= TermC.min_value

BoundsAndKnown ==
  LET b == TryCompareUsingConstIntBounds(expr[1], expr[2], Ctx).v
  IN IF is_finished(b) THEN b
     ELSE b \cap TryCompareUsingKnownInequalities(expr[1], expr[2], Ctx)

ComparedXY == last.op = "compare" /\ last.ok /\ expr \in XYQueries
\* what each layer says of the pair
FromBounds == TryCompareUsingConstIntBounds(expr[1], expr[2], Ctx).v
FromKnown == TryCompareUsingKnownInequalities(expr[1], expr[2], Ctx)
FromProduct == TryComparisonOfProductAndSum(expr[1], expr[2], Ctx).v
Decided == {kEQ, kLT, kGT}

\* C17: TryCompare(x, y) intersects the layers in the order bounds, known
\* inequalities, product and sum; a layer is skipped as soon as the answer so
\* far is EQ, LT or GT, and the answer is Unknown when no layer says anything
C17_LayersInOrder ==
  ComparedXY =>
    /\ FromBounds \in Decided =>
          last.layers = <<"bounds">> /\ result = Answer(FromBounds)
    /\ (FromBounds \notin Decided /\ FromBounds \cap FromKnown \in Decided) =>
          /\ last.layers = <<"bounds", "known">>
          /\ result = Answer(FromBounds \cap FromKnown)
    /\ (FromBounds \notin Decided /\ FromBounds \cap FromKnown \notin Decided) =>
          /\ last.layers = <<"bounds", "known", "product">>
          /\ result = Answer((FromBounds \cap FromKnown) \cap FromProduct)
    /\ (FromBounds = kUnknown /\ FromKnown = kUnknown /\ FromProduct = kUnknown) =>
          result = Answer(kUnknown)

\* the bounds said NE, the known inequalities LE: the answer LT was returned
\* without the product and sum comparison
C17_Witness ==
  /\ ComparedXY
  /\ expr = OddApart
  /\ FromBounds = kNE
  /\ FromKnown = kLE
  /\ last.layers = <<"bounds", "known">>
  /\ result = Answer(kLT)

\* the answer of TryCompare(x, y) when the known inequalities say t and the
\* product and sum comparison says p
Layered(t, p) ==
  IF FromBounds \in Decided THEN FromBounds
  ELSE IF FromBounds \cap t \in Decided THEN FromBounds \cap t
  ELSE (FromBounds \cap t) \cap p

\* C18: with the transitively-prove-inequalities extension disabled the
\* transitive oracle contributes Unknown, and with the
\* comparison-of-product-and-sum extension disabled the product and sum
\* comparison contributes Unknown
C18_LayersGated ==
  ComparedXY =>
    /\ kTransitivelyProveInequalities \notin enabled_extensions_ =>
          result = Answer(Layered(kUnknown, FromProduct))
    /\ kComparisonOfProductAndSum \notin enabled_extensions_ =>
          result = Answer(Layered(FromKnown, kUnknown))

\* C18 as the code has it: the transitive oracle is asked whatever the
\* extensions are; with transitively-prove-inequalities disabled it answers
\* from the inequalities held of the very pair, without propagation, and with
\* it enabled also through an expression in between; with
\* comparison-of-product-and-sum disabled the product and sum comparison
\* contributes Unknown
C18_PropagationGated ==
  ComparedXY =>
    /\ kTransitivelyProveInequalities \notin enabled_extensions_ =>
          result = Answer(Layered(KnownDirectly(expr[1], expr[2], known), FromProduct))
    /\ kTransitivelyProveInequalities \in enabled_extensions_ =>
          result = Answer(Layered(TransitiveCompare(expr[1], expr[2], TRUE, Ctx), FromProduct))
    /\ kComparisonOfProductAndSum \notin enabled_extensions_ =>
          /\ FromProduct = kUnknown
          /\ result = Answer(Layered(FromKnown, kUnknown))

\* with no extension enabled, x < y held by the analyzer gave LT
C18_Witness ==
  /\ ComparedXY
  /\ enabled_extensions_ = {}
  /\ expr = <<X, Y>>
  /\ known = {LT(X, Y)}
  /\ FromBounds = kUnknown
  /\ result = Answer(kLT)

\* TryCompare(x, val) was just called on the pair expr
ComparedVal == last.op = "compare" /\ last.ok /\ expr \in ValQueries
\* the bound and the modular set of the simplified x
BoundOfX == ConstIntBound(VisitExpr(expr[1], Ctx).e, Ctx)
ModularOfX == ModularSet(VisitExpr(expr[1], Ctx).e, Ctx)
ProvesApart == Val(expr[2]) = 0 /\ ModularOfX.base # 0

\* C19: TryCompare(x, v) returns the intersection of what the bound and the
\* modular set of the simplified x prove: GT when the bound proves x >= v and
\* the modular set x != v, LT when the bound proves x <= v and the modular set
\* x != v
C19_Intersection ==
  ComparedVal =>
    /\ (BoundOfX.min_value >= Val(expr[2]) /\ ProvesApart) => result = Answer(kGT)
    /\ (BoundOfX.max_value <= Val(expr[2]) /\ ProvesApart) => result = Answer(kLT)

\* C19 as the code has it: TryCompare(x, v) answers from the simplified x, its
\* bound and its modular set alone, and returns the first of: EQ, GT or LT for
\* a literal x; EQ, GT, LT, GE, LE as the bound proves; NE when v = 0 and the
\* base of the modular set is not 0; Unknown. When the bound proves x >= v or
\* x <= v the modular set is not asked
C19_FirstProof ==
  ComparedVal =>
    LET v == Val(expr[2])
        x == VisitExpr(expr[1], Ctx).e
    IN /\ IsInt(x) => result = Answer(IF Val(x) = v THEN kEQ
                                       ELSE IF Val(x) > v THEN kGT ELSE kLT)
       /\ ~IsInt(x) =>
            /\ (BoundOfX.min_value = v /\ BoundOfX.max_value = v) => result = Answer(kEQ)
            /\ BoundOfX.min_value > v => result = Answer(kGT)
            /\ BoundOfX.max_value < v => result = Answer(kLT)
            /\ (BoundOfX.min_value = v /\ BoundOfX.max_value > v) => result = Answer(kGE)
            /\ (BoundOfX.max_value = v /\ BoundOfX.min_value < v) => result = Answer(kLE)
            /\ (BoundOfX.min_value < v /\ BoundOfX.max_value > v) =>
                 result = Answer(IF ProvesApart THEN kNE ELSE kUnknown)

\* x >= 0 by its bound and x odd by its modular set: GE was returned, and the
\* inequality x < 0 held by the transitive oracle was not used
C19_Witness ==
  /\ ComparedVal
  /\ expr = <<X, IntImm(0)>>
  /\ var_bound["x"] = MakeBound(0, kPosInf)
  /\ var_modular["x"] = Odd
  /\ known = {LT(X, IntImm(0))}
  /\ result = Answer(kGE)


\* handle_reduction_decomposition was called
Handled == last.op = "handle"

\* C15: whatever the block list and the annotation list, the call returns a
\* block list and a stage list of one length and reads past the end of
\* neither input
C15_EqualLengths ==
  Handled =>
    /\ last.ok
    /\ last.past_the_end = 0
    /\ Len(processed_blocks) = Len(processed_stages)

\* a name longer than 5 characters that ends in "_init"
InitBlock(name) ==
  Len(name) > 5 /\ \E k \in 1..Len(name) : SubSeq(name, k, Len(name)) = "_init"
\* the places of the blocks that are no init blocks, and the n-th of them
Kept == {i \in 1..Len(original_blocks) : ~InitBlock(original_blocks[i])}
NthKept(n) == CHOOSE i \in Kept : Cardinality({k \in Kept : k < i}) = n - 1
Excess == Len(original_blocks) - Len(pipeline_stages)

\* C16: when the lengths differ and the init blocks are as many as the blocks
\* in excess of the annotations, the call returns the blocks that are no init
\* blocks, in their order, and the annotations unchanged; when the lengths
\* are equal it returns both lists unchanged
C16_FiltersInitBlocks ==
  Handled =>
    /\ (Excess # 0 /\ Len(original_blocks) - Cardinality(Kept) = Excess) =>
          /\ last.ok
          /\ Len(processed_blocks) = Cardinality(Kept)
          /\ \A n \in 1..Cardinality(Kept) : processed_blocks[n] = original_blocks[NthKept(n)]
          /\ processed_stages = pipeline_stages
    /\ Excess = 0 =>
          /\ last.ok
          /\ processed_blocks = original_blocks
          /\ processed_stages = pipeline_stages

\* an init block was dropped and a block named "_init" kept
C16_Witness ==
  /\ Handled
  /\ original_blocks = <<"c_init", "_init", "c_update">>
  /\ pipeline_stages = <<0, 1>>
  /\ processed_blocks = <<"_init", "c_update">>
  /\ processed_stages = <<0, 1>>


\* VisitExpr was just called on And(a, b) or Or(a, b) with the extension
\* apply-constraints-to-boolean-branches enabled
Walked ==
  /\ last.op = "visit" /\ last.ok
  /\ kApplyConstraintsToBooleanBranches \in enabled_extensions_
\* the value of the branch named before the n-th visit
RECURSIVE Current(_, _)
Current(branch, n) ==
  IF n <= 1 THEN (IF branch = "a" THEN A(expr) ELSE B(expr))
  ELSE IF last.visits[n - 1].branch = branch THEN last.visits[n - 1].updated
  ELSE Current(branch, n - 1)
Other(branch) == IF branch = "a" THEN "b" ELSE "a"
\* the walk visits a, b, a, b, each under the constraint from the current
\* value of the other branch, each branch once or twice
Alternates ==
  /\ Len(last.visits) \in 2..4
  /\ \A n \in 1..Len(last.visits) :
       LET visit == last.visits[n]
           other == Current(Other(visit.branch), n)
       IN /\ visit.branch = (IF n % 2 = 1 THEN "a" ELSE "b")
          /\ visit.to_update = Current(visit.branch, n)
          /\ visit.constraint = (IF Kind(expr) = "and" THEN other
                                 ELSE NormalizeBooleanOperators(Not(other)))
\* the walk stops as soon as two visits in a row are quiet, and not before
StopsAfterTwo(quiet) ==
  /\ \A n \in 2..(Len(last.visits) - 1) : ~(quiet[n - 1] /\ quiet[n])
  /\ Len(last.visits) < 4 => quiet[Len(last.visits) - 1] /\ quiet[Len(last.visits)]
\* the visits that left their branch as it was, and those that returned the
\* very node they were given
Unchanged == [n \in 1..Len(last.visits) |-> last.visits[n].updated = last.visits[n].to_update]
SameNode == [n \in 1..Len(last.visits) |-> last.visits[n].same_as]

\* C20: with the extension enabled, a visit of And(a, b) or Or(a, b) visits
\* a, b, a, b in turn, each under the constraint from the other branch (the
\* branch for And, its normalized negation for Or), each branch once or
\* twice; it stops as soon as two visits in a row leave their branch
\* unchanged, and keeps the original node when no visit changed its branch
C20_StopsWhenUnchanged ==
  Walked =>
    /\ Alternates
    /\ StopsAfterTwo(Unchanged)
    /\ (\A n \in 1..Len(last.visits) : Unchanged[n]) => last.kept

\* C20 as the code has it: the same walk, where a visit counts as leaving its
\* branch unchanged only when it returns the very node it was given; a visit
\* that rebuilds an equal node counts as a change
C20_StopsWhenSameNode ==
  Walked =>
    /\ Alternates
    /\ StopsAfterTwo(SameNode)
    /\ last.kept <=> \A n \in 1..Len(last.visits) : SameNode[n]

\* in And(p, p) the first visit found a true under b, and the walk stopped
\* after b and a were returned as given: three visits
C20_Witness ==
  /\ Walked
  /\ expr = And(Bp, Bp)
  /\ Len(last.visits) = 3
  /\ ~last.visits[1].same_as
  /\ last.visits[2].same_as /\ last.visits[3].same_as
  /\ last.visits[2].constraint = BoolImm(TRUE)
  /\ ~last.kept


\* the relation between the integers a and b
Relation(a, b) == IF a < b THEN "LT" ELSE IF a = b THEN "EQ" ELSE "GT"
\* the relation between the operands of the comparison drawn, under rho
Related(rho) == Relation(Value(A(expr), rho).v, Value(B(expr), rho).v)

\* C21: visiting GT(a, b) gives what visiting LT(b, a) gives, and GE(a, b)
\* what LE(b, a) gives; and whenever the CompareResult the visitor of EQ, NE,
\* LT or LE acts on is consistent with the values of a and b, the literal or
\* reduced comparison it returns has the truth value of the comparison
C21_Desugaring ==
  /\ (last.op = "visit" /\ last.ok /\ Kind(expr) = "gt") =>
       result = VisitExpr(Bin("lt", B(expr), A(expr)), Ctx).e
  /\ (last.op = "visit" /\ last.ok /\ Kind(expr) = "ge") =>
       result = VisitExpr(Bin("le", B(expr), A(expr)), Ctx).e
  /\ last.op = "reduce" =>
       \A rho \in Envs(expr) :
         Related(rho) \in last.compared => Value(result, rho) = Value(expr, rho)

\* x != y was visited while TryCompare(x, y) answered GE, and y < x returned
C21_Witness ==
  /\ last.op = "reduce"
  /\ expr = NE(X, Y)
  /\ last.compared = kGE
  /\ result = LT(Y, X)


\* C22: NormalizeBooleanOperators(e) is logically equivalent to e; its root
\* is no Not of a Not, And, Or or comparison, and no GT or GE; normalizing it
\* again gives a structurally equal expression
C22_Normalized ==
  last.op = "normalize" =>
    /\ \A rho \in Envs(expr) : Value(result, rho) = Value(expr, rho)
    /\ ~(Is(result, "not") /\ Kind(A(result)) \in {"not", "and", "or"} \cup CmpOps)
    /\ Kind(result) \notin {"gt", "ge"}
    /\ NormalizeBooleanOperators(result) = result

\* !!!(x >= 1 && !(x <= y)) was normalized to x < 1 || x <= y
C22_Witness ==
  /\ last.op = "normalize"
  /\ expr = Not(Not(Not(And(GE(X, IntImm(1)), Not(LE(X, Y))))))
  /\ result = Or(LT(X, IntImm(1)), LE(X, Y))


\* the constraint the last EnterConstraint was given, as one pass simplifies
\* it under the constraints in force before, and its sub-constraints without
\* side effects, in order
Newest == handles[Len(handles)]
NewConstraint == VisitExpr(Newest.constraint, [Ctx EXCEPT !.lit = Newest.before]).e
PureSubconstraints == SelectSeq(ExtractConstraints(NewConstraint), SideEffectIsPure)
\* what is pushed after the sub-constraint s
Counterpart(s) ==
  Not(IF DType(s) = "bool" THEN NormalizeBooleanOperators(Not(s))
      ELSE P("eq", s, ZeroWithTypeLike(s)))

\* C23: EnterConstraint(c) appends, for each sub-constraint s of the
\* simplified c without side effects, in order, the two entries s and
\* Not(negation), and nothing for a sub-constraint with side effects; the
\* stack size is even in every reachable state
C23_PushesPairs ==
  /\ Len(literal_constraints_) % 2 = 0
  /\ (last.op = "enter" /\ last.ok) =>
       /\ literal_constraints_ = Newest.before \o Newest.pushed
       /\ Len(Newest.pushed) = 2 * Len(PureSubconstraints)
       /\ \A n \in 1..Len(PureSubconstraints) :
            /\ Newest.pushed[2 * n - 1] = PureSubconstraints[n]
            /\ Newest.pushed[2 * n] = Counterpart(PureSubconstraints[n])

\* p && f() was entered on top of the integer constraint x + 1: the entries
\* of x + 1, then those of p alone
C23_Witness ==
  /\ last.op = "enter" /\ last.ok
  /\ Len(handles) = 2
  /\ handles[1].constraint = Add(X, IntImm(1))
  /\ Newest.constraint = And(Bp, ExternCall("f"))
  /\ literal_constraints_ =
       <<Add(X, IntImm(1)), Not(EQ(Add(X, IntImm(1)), IntImm(0))), Bp, Not(Not(Bp))>>


\* the number of nodes of e
RECURSIVE Size(_)
Size(e) ==
  IF IsLeaf(e) THEN 1
  ELSE IF Kind(e) = "not" THEN 1 + Size(A(e))
  ELSE 1 + Size(A(e)) + Size(B(e))

\* C24: a pass in which no recursive-rewrite rule fires visits, and counts
\* in nodes_visited, every sub-expression of its input exactly once; an EQ,
\* NE, LT or LE node that its rules or TryCompare decide does not have its
\* operands visited again
C24_VisitedOnce ==
  (last.op = "visit" /\ last.ok /\ Kind(expr) \in {"eq", "ne", "lt", "le"}
     /\ last.k.nr = 0) =>
    last.k.nv = Size(expr)


\* the call just made applied rule i of the table of kind
Applied(kind, i) == last.op = "rule" /\ Kind(expr) = kind /\ last.rule = i
\* the replacement has the value of the node wherever the analyzer's bounds hold
SameValue == \A rho \in Envs(expr) : Value(result, rho) = Value(expr, rho)

\* C25: when truncdiv(x + c1, c3) - truncdiv(x + c2, c3) is rewritten to
\* truncdiv(truncmod(x + floormod(c2, c3), c3) + (c1 - c2), c3), the two have
\* the same value for every x the bound x >= -c2 allows
C25_TruncDivDifference == Applied("sub", 38) => SameValue


\* C26: when x < c1 && floormod(x, c2) < c3, or x <= c1 && floormod(x, c2) < c3,
\* is rewritten to a tighter bound on x next to the same comparison of the
\* remainder, the two have the same truth value for every x
C26_BoundTightening ==
  (\E i \in 16..19 : Applied("and", i)) => SameValue


\* one side of the comparison drawn is a literal less something
LiteralLess == \E side \in {A(expr), B(expr)} : Match(Sub(pc1, px), side).ok

\* C29: when the LT table merges the constant offsets of the two sides, the
\* merged comparison has the truth value of the node; and a side of the form
\* c - x never gets as far as the merge, one of the rules up to c1 - y < x
\* rewrites the node before
C29_MergedOffsets ==
  /\ Applied("lt", 51) => SameValue
  /\ last.op = "rule" /\ Kind(expr) = "lt" /\ LiteralLess => last.rule \in 1..48
\* x - 1 < y + 1 was merged to x < y + 2
C29_Witness ==
  /\ Applied("lt", 51)
  /\ expr = LT(Sub(X, IntImm(1)), Add(Y, IntImm(1)))
  /\ result = LT(X, Add(Y, IntImm(2)))


\* C27: whenever the product-and-sum comparison of (A+B)*C and (A*B)*D says LT
\* or GT, that strict inequality holds for all values of the variables inside
\* their bounds, the bounds without a finite upper end included; and it says
\* Unknown when neither A nor B has a finite upper bound
C27_ProductAndSumSound ==
  ComparedProducts =>
    /\ FromProduct \in {kLT, kGT} =>
          \A rho \in Envs(LT(expr[1], expr[2])) :
            Relation(Value(expr[1], rho).v, Value(expr[2], rho).v) \in FromProduct
    /\ (TermA.max_value = kPosInf /\ TermB.max_value = kPosInf) =>
          FromProduct = kUnknown


\* C28: one pass over an LE or NE node never returns the negation of a boolean
\* literal
C28_NoNegatedLiteral ==
  (last.op = "visit" /\ last.ok /\ Kind(expr) \in {"le", "ne"}) =>
    ~(Kind(result) = "not" /\ IsBool(A(result)))


\* n is one of the integers base + k * coeff
Member(n, m) == IF m.coeff = 0 THEN n = m.base ELSE (n - m.base) % m.coeff = 0

\* C30: TryCompare(x, 0) answers NE only when 0 is none of the integers
\* base + k * coeff of the modular set reported for the simplified x
C30_ApartFromZero ==
  (ComparedVal /\ Val(expr[2]) = 0 /\ result = Answer(kNE)) => ~Member(0, ModularOfX)

=============================================================================
